---- MODULE Spec2Model ----
(***************************************************************************)
(* Configuration validation and deployment start-up of rctab-infrastructure *)
(*                                                                         *)
(* Python strings are sequences of one-character strings; None is the      *)
(* one-element sequence <<"None">>, which no string of characters equals.  *)
(* A call either returns a value or raises an exception that carries the   *)
(* message template of the source and the value embedded in it.            *)
(***************************************************************************)
EXTENDS Integers, Sequences, FiniteSets, TLC

VARIABLES
    fn,        \* the function a call is made to
    args,      \* its arguments
    ret,       \* what the call returned or raised
    config,    \* the stack's configuration: key -> value, None when unset
    pc,        \* the statement the deployment program is at
    consts,    \* the module constants loaded so far: name -> value
    outputs,   \* the Outputs created so far: name -> state of the callback
    ran,       \* the keys whose validator has been called, in call order
    xorCalls,  \* the arguments raise_billing_or_mgmt has been called with
    declared,  \* the resources declared so far, in order
    error      \* the exception that ended the program, if any

callVars == <<fn, args, ret>>
runVars == <<config, pc, consts, outputs, ran, xorCalls, declared, error>>
vars == <<fn, args, ret, config, pc, consts, outputs, ran, xorCalls, declared, error>>

(***************************************************************************)
(* Bounds of the inputs                                                    *)
(***************************************************************************)
MaxTickerLen == 7
MaxStackLen == 10
MaxChoiceLen == 3
MaxItems == 3
MaxAgainLen == 8
MaxOctets == 5
MaxGroups == 9
MaxTagLen == 3

(***************************************************************************)
(* Python values                                                           *)
(***************************************************************************)
None == <<"None">>

\* bool(x) of an Optional[str]: None and "" are falsy
Truthy(x) == x # None /\ x # <<>>

\* Mutant: no default is substituted
str_or_nothing(x, default) == x

\* x or default, x an Optional[str]
str_or(x, default) == IF Truthy(x) THEN x ELSE default

Lower == {"a", "b", "c", "d", "e", "f", "g", "h", "i", "j", "k", "l", "m",
          "n", "o", "p", "q", "r", "s", "t", "u", "v", "w", "x", "y", "z"}
Upper == {"A", "B", "C", "D", "E", "F", "G", "H", "I", "J", "K", "L", "M",
          "N", "O", "P", "Q", "R", "S", "T", "U", "V", "W", "X", "Y", "Z"}
Digit == {"0", "1", "2", "3", "4", "5", "6", "7", "8", "9"}
Whitespace == {" ", "\t", "\n", "\r", "\f"}

\* A call that returned v
Returned(v) ==
    [done |-> TRUE, ok |-> TRUE, val |-> v, exc |-> "", msg |-> "", arg |-> <<>>]

\* A call that raised exception type e with message template m, the {}
\* of the template filled with a
Raised(e, m, a) ==
    [done |-> TRUE, ok |-> FALSE, val |-> None, exc |-> e, msg |-> m, arg |-> a]

\* No call made yet
NoResult ==
    [done |-> FALSE, ok |-> FALSE, val |-> None, exc |-> "", msg |-> "", arg |-> <<>>]

(***************************************************************************)
(* Python string methods                                                   *)
(***************************************************************************)
RECURSIVE lstrip(_)
\* s with its leading whitespace removed
lstrip(s) ==
    IF Len(s) > 0 /\ s[1] \in Whitespace THEN lstrip(Tail(s)) ELSE s

RECURSIVE rstrip(_)
\* s with its trailing whitespace removed
rstrip(s) ==
    IF Len(s) > 0 /\ s[Len(s)] \in Whitespace
    THEN rstrip(SubSeq(s, 1, Len(s) - 1))
    ELSE s

\* str.strip()
strip(s) == rstrip(lstrip(s))

RECURSIVE strip_chars(_, _)
\* str.strip(chars): leading and trailing characters of the set removed
strip_chars(s, chars) ==
    IF Len(s) > 0 /\ s[1] \in chars THEN strip_chars(Tail(s), chars)
    ELSE IF Len(s) > 0 /\ s[Len(s)] \in chars
    THEN strip_chars(SubSeq(s, 1, Len(s) - 1), chars)
    ELSE s

RECURSIVE split(_, _)
\* str.split(sep) for a one-character separator: one more piece than
\* there are separators, empty pieces kept
split(s, sep) ==
    IF \E i \in 1..Len(s) : s[i] = sep
    THEN LET i == CHOOSE j \in 1..Len(s) :
                      s[j] = sep /\ \A k \in 1..(j - 1) : s[k] # sep
         IN  <<SubSeq(s, 1, i - 1)>> \o split(SubSeq(s, i + 1, Len(s)), sep)
    ELSE <<s>>

RECURSIVE join(_, _)
\* sep.join(items)
join(sep, items) ==
    IF Len(items) = 0 THEN <<>>
    ELSE IF Len(items) = 1 THEN items[1]
    ELSE items[1] \o sep \o join(sep, Tail(items))

StartsWith(s, p) == Len(s) >= Len(p) /\ SubSeq(s, 1, Len(p)) = p

RECURSIVE remove_all(_, _)
\* str.replace(p, ""): every occurrence of p removed, scanning left to right
remove_all(s, p) ==
    IF Len(s) = 0 THEN <<>>
    ELSE IF StartsWith(s, p) THEN remove_all(SubSeq(s, Len(p) + 1, Len(s)), p)
    ELSE <<s[1]>> \o remove_all(Tail(s), p)

\* Mutant: the empty string passes
isdecimal_or_empty(s) == \A i \in 1..Len(s) : s[i] \in Digit

\* str.isdecimal(): at least one character, all of them decimal digits
isdecimal(s) == Len(s) > 0 /\ \A i \in 1..Len(s) : s[i] \in Digit

(***************************************************************************)
(* format_list_str, format_list_int                                        *)
(***************************************************************************)
quoted(item) == <<"\"">> \o item \o <<"\"">>

\* Mutant: the items are quoted without being stripped
format_list_str_unstripped(input_str) ==
    IF Truthy(input_str)
    THEN LET items == split(input_str, ",")
             formatted_str ==
                 join(<<",", " ">>, [i \in 1..Len(items) |-> quoted(items[i])])
         IN  Returned(<<"[">> \o formatted_str \o <<"]">>)
    ELSE Returned(input_str)

format_list_str(input_str) ==
    IF Truthy(input_str)
    THEN LET items == split(input_str, ",")
             formatted_str ==
                 join(<<",", " ">>, [i \in 1..Len(items) |-> quoted(strip(items[i]))])
         IN  Returned(<<"[">> \o formatted_str \o <<"]">>)
    ELSE Returned(input_str)

\* Mutant: the brackets are added to an empty or absent input too
format_list_int_unguarded(input_str) ==
    Returned(<<"[">> \o input_str \o <<"]">>)

\* Mutant: the input is trimmed before the brackets are added
format_list_int_trimmed(input_str) ==
    IF Truthy(input_str)
    THEN Returned(<<"[">> \o strip(input_str) \o <<"]">>)
    ELSE Returned(input_str)

format_list_int(input_str) ==
    IF Truthy(input_str)
    THEN Returned(<<"[">> \o input_str \o <<"]">>)
    ELSE Returned(input_str)

\* format_secret_list_str(input_str), input_str being None or an Output,
\* written here as the string the Output carries; the result likewise.  An
\* Output object is truthy whatever it carries, so "if input_str:" tells
\* None from an Output and nothing more.
format_secret_list_str(input_str) ==
    IF input_str # None
    THEN LET items == split(input_str, ",")
             formatted_str ==
                 join(<<",", " ">>, [i \in 1..Len(items) |-> quoted(strip(items[i]))])
         IN  Returned(<<"[">> \o formatted_str \o <<"]">>)
    ELSE Returned(input_str)

(***************************************************************************)
(* create_action_group: the e-mail receivers                               *)
(***************************************************************************)
\* An Optional value that is not a string: absent, or present with items
Absent == [present |-> FALSE, items |-> <<>>]
Present(items) == [present |-> TRUE, items |-> items]

\* Mutant: no character is deleted
translate_nothing(x, deleted) == x

RECURSIVE translate(_, _)
\* x.translate(str.maketrans("", "", deleted)): the characters of the set
\* removed from x
translate(x, deleted) ==
    IF Len(x) = 0 THEN <<>>
    ELSE IF x[1] \in deleted THEN translate(Tail(x), deleted)
    ELSE <<x[1]>> \o translate(Tail(x), deleted)

EmailReceiverArgs(email_address, name) ==
    [email_address |-> email_address, name |-> name, use_common_alert_schema |-> FALSE]

\* The email_receivers argument of the action group; ADMIN_EMAIL_RECIPIENTS
\* is None or the string its Output carries
email_receivers(ADMIN_EMAIL_RECIPIENTS) ==
    IF ADMIN_EMAIL_RECIPIENTS # None
    THEN LET parts == split(translate(ADMIN_EMAIL_RECIPIENTS, {"[", "]", "\""}), ",")
         IN  Present([k \in 1..Len(parts) |->
                         EmailReceiverArgs(strip(parts[k]),
                                           strip(split(parts[k], "@")[1]))])
    ELSE Absent

(***************************************************************************)
(* is_valid_uuid: uuid.UUID(check_uuid) raises ValueError or not           *)
(***************************************************************************)
HexDigit == Digit \cup {"a", "b", "c", "d", "e", "f", "A", "B", "C", "D", "E", "F"}

\* Digits of int(x, 16): hexadecimal digits, single underscores between them
HexDigits(b) ==
    /\ Len(b) > 0
    /\ \A i \in 1..Len(b) : b[i] \in HexDigit \cup {"_"}
    /\ b[1] # "_"
    /\ b[Len(b)] # "_"
    /\ \A i \in 1..(Len(b) - 1) : ~(b[i] = "_" /\ b[i + 1] = "_")

\* int(x, 16) does not raise ValueError: whitespace around, an optional sign,
\* an optional 0x prefix (which one underscore may follow), then the digits
int16_parses(x) ==
    LET t == strip(x)
        u == IF Len(t) > 0 /\ t[1] \in {"+", "-"} THEN Tail(t) ELSE t
        prefixed == Len(u) >= 2 /\ u[1] = "0" /\ u[2] \in {"x", "X"}
        v == SubSeq(u, 3, Len(u))
        w == IF Len(v) > 0 /\ v[1] = "_" THEN Tail(v) ELSE v
    IN  IF prefixed THEN HexDigits(w) ELSE HexDigits(u)

\* uuid.UUID(hex) does not raise ValueError
UUID_parses(hex) ==
    LET h1 == remove_all(remove_all(hex, <<"u", "r", "n", ":">>),
                         <<"u", "u", "i", "d", ":">>)
        h2 == remove_all(strip_chars(h1, {"{", "}"}), <<"-">>)
    IN  Len(h2) = 32 /\ int16_parses(h2)

is_valid_uuid(check_uuid) == UUID_parses(check_uuid)

(***************************************************************************)
(* assert_valid_uuid_list, assert_valid_int_list                           *)
(***************************************************************************)
\* The index of the first item the loop's assertion fails on, 0 if none
first_invalid_uuid(uuids) ==
    IF \E i \in 1..Len(uuids) : ~is_valid_uuid(strip(uuids[i]))
    THEN CHOOSE i \in 1..Len(uuids) :
             /\ ~is_valid_uuid(strip(uuids[i]))
             /\ \A j \in 1..(i - 1) : is_valid_uuid(strip(uuids[j]))
    ELSE 0

\* The index of the first item the loop's assertion fails on, 0 if none
first_invalid_int(integers) ==
    IF \E i \in 1..Len(integers) : ~isdecimal(strip(integers[i]))
    THEN CHOOSE i \in 1..Len(integers) :
             /\ ~isdecimal(strip(integers[i]))
             /\ \A j \in 1..(i - 1) : isdecimal(strip(integers[j]))
    ELSE 0

\* Mutant: the list is scanned from its end
assert_valid_uuid_list_reversed(whitelist) ==
    IF Truthy(whitelist)
    THEN LET uuids == split(whitelist, ",")
             bad == {i \in 1..Len(uuids) : ~is_valid_uuid(strip(uuids[i]))}
         IN  IF bad # {}
             THEN Raised("AssertionError", "{} is not a valid UUID",
                         strip(uuids[CHOOSE i \in bad : \A j \in bad : j <= i]))
             ELSE Returned(whitelist)
    ELSE Returned(whitelist)

assert_valid_uuid_list(whitelist) ==
    IF Truthy(whitelist)
    THEN LET uuids == split(whitelist, ",")
             bad == first_invalid_uuid(uuids)
         IN  IF bad # 0
             THEN Raised("AssertionError", "{} is not a valid UUID", strip(uuids[bad]))
             ELSE Returned(whitelist)
    ELSE Returned(whitelist)

assert_valid_int_list(int_list) ==
    IF Truthy(int_list)
    THEN LET integers == split(int_list, ",")
             bad == first_invalid_int(integers)
         IN  IF bad # 0
             THEN Raised("AssertionError", "{} is not a valid integer.", strip(integers[bad]))
             ELSE Returned(int_list)
    ELSE Returned(int_list)

(***************************************************************************)
(* validate_ticker_stack_combination                                       *)
(***************************************************************************)
\* [a-zA-Z0-9-]
IdentifierChar(c) == c \in Lower \cup Upper \cup Digit \cup {"-"}

MinPatternLen == 3
MaxPatternLen == 20

\* Mutant: the pattern has no upper length
FullMatchIdentifier_unbounded(s) ==
    /\ Len(s) >= MinPatternLen
    /\ \A i \in 1..Len(s) : IdentifierChar(s[i])

FullMatchIdentifier(s) ==
    /\ Len(s) >= MinPatternLen
    /\ Len(s) <= MaxPatternLen
    /\ \A i \in 1..Len(s) : IdentifierChar(s[i])

\* re.match(r"^[a-zA-Z0-9-]{3,20}$", s): $ also matches before a final newline
valid_identifier_pattern(s) ==
    \/ FullMatchIdentifier(s)
    \/ /\ Len(s) >= 1
       /\ s[Len(s)] = "\n"
       /\ FullMatchIdentifier(SubSeq(s, 1, Len(s) - 1))

\* The suffix that stands for the 8 characters the platform may append
Suffix == <<"-", "a", "b", "c", "d", "e", "f", "g", "h">>

proposed_identifier(ticker, stack) == ticker \o <<"-">> \o stack

\* Mutant: the pattern is matched against the identifier without the suffix
org_stack_unpadded(ticker, stack) == proposed_identifier(ticker, stack)

org_stack(ticker, stack) == proposed_identifier(ticker, stack) \o Suffix

TickerTooShort == "Ticker cannot be less than 2 characters"
TickerTooLong == "Ticker cannot be more than 6 characters"
PatternMessage ==
    "The organisation and stack name must match the pattern '^[a-zA-Z0-9-]{3,20}$' but is '{}'."

\* Mutant: the upper ticker bound is off by one (a ticker of 7 is accepted)
validate_ticker_stack_combination_upto7(ticker, stack) ==
    IF ~(Len(ticker) > 1)
    THEN Raised("AssertionError", TickerTooShort, <<>>)
    ELSE IF ~(Len(ticker) < 8)
    THEN Raised("AssertionError", TickerTooLong, <<>>)
    ELSE IF ~valid_identifier_pattern(org_stack(ticker, stack))
    THEN Raised("AssertionError", PatternMessage, org_stack(ticker, stack))
    ELSE Returned(proposed_identifier(ticker, stack))

\* Mutant: the pattern is checked before the length of the ticker
validate_ticker_stack_combination_pattern_first(ticker, stack) ==
    IF ~valid_identifier_pattern(org_stack(ticker, stack))
    THEN Raised("AssertionError", PatternMessage, org_stack(ticker, stack))
    ELSE IF ~(Len(ticker) > 1)
    THEN Raised("AssertionError", TickerTooShort, <<>>)
    ELSE IF ~(Len(ticker) < 7)
    THEN Raised("AssertionError", TickerTooLong, <<>>)
    ELSE Returned(proposed_identifier(ticker, stack))

validate_ticker_stack_combination(ticker, stack) ==
    IF ~(Len(ticker) > 1)
    THEN Raised("AssertionError", TickerTooShort, <<>>)
    ELSE IF ~(Len(ticker) < 7)
    THEN Raised("AssertionError", TickerTooLong, <<>>)
    ELSE IF ~valid_identifier_pattern(org_stack(ticker, stack))
    THEN Raised("AssertionError", PatternMessage, org_stack(ticker, stack))
    ELSE Returned(proposed_identifier(ticker, stack))

(***************************************************************************)
(* The copy of validate_ticker_stack_combination in src/utils.py           *)
(***************************************************************************)
SrcTickerTooLong == "Ticker cannot be more than 5 characters"

\* The assertion's message is a tuple of two strings
SrcPatternMessage ==
    "(\"The organisation and stack name must match the pattern '^[a-zA-Z0-9-]{3,20}$'. \", 'Please ensure the combined stack and organisation names are less than 24 characters long.')"

\* Mutant: a ticker of 6 characters is accepted
src_validate_ticker_stack_combination_upto6(ticker, stack) ==
    IF ~(Len(ticker) > 1)
    THEN Raised("AssertionError", TickerTooShort, <<>>)
    ELSE IF ~(Len(ticker) < 7)
    THEN Raised("AssertionError", SrcTickerTooLong, <<>>)
    ELSE IF ~valid_identifier_pattern(org_stack(ticker, stack))
    THEN Raised("AssertionError", SrcPatternMessage, <<>>)
    ELSE Returned(proposed_identifier(ticker, stack))

src_validate_ticker_stack_combination(ticker, stack) ==
    IF ~(Len(ticker) > 1)
    THEN Raised("AssertionError", TickerTooShort, <<>>)
    ELSE IF ~(Len(ticker) < 6)
    THEN Raised("AssertionError", SrcTickerTooLong, <<>>)
    ELSE IF ~valid_identifier_pattern(org_stack(ticker, stack))
    THEN Raised("AssertionError", SrcPatternMessage, <<>>)
    ELSE Returned(proposed_identifier(ticker, stack))

(***************************************************************************)
(* assert_str_true_or_false, assert_valid_log_level, assert_is_file        *)
(***************************************************************************)
TrueStr == <<"t", "r", "u", "e">>
FalseStr == <<"f", "a", "l", "s", "e">>

assert_str_true_or_false(checkstr) ==
    IF Truthy(checkstr) /\ checkstr \notin {TrueStr, FalseStr}
    THEN Raised("AssertionError",
                "{} is an invalid value. Allowed values are 'true' or 'false'.",
                checkstr)
    ELSE Returned(checkstr)

LowerLetters ==
    <<"a", "b", "c", "d", "e", "f", "g", "h", "i", "j", "k", "l", "m",
      "n", "o", "p", "q", "r", "s", "t", "u", "v", "w", "x", "y", "z">>
UpperLetters ==
    <<"A", "B", "C", "D", "E", "F", "G", "H", "I", "J", "K", "L", "M",
      "N", "O", "P", "Q", "R", "S", "T", "U", "V", "W", "X", "Y", "Z">>

\* str.upper() of ASCII text
upper(s) ==
    [i \in 1..Len(s) |->
        IF s[i] \in Lower
        THEN UpperLetters[CHOOSE k \in 1..Len(LowerLetters) : LowerLetters[k] = s[i]]
        ELSE s[i]]

\* str.lower() of ASCII text
lower(s) ==
    [i \in 1..Len(s) |->
        IF s[i] \in Upper
        THEN LowerLetters[CHOOSE k \in 1..Len(UpperLetters) : UpperLetters[k] = s[i]]
        ELSE s[i]]

(***************************************************************************)
(* The storage account's name in set_up_function_apps                      *)
(***************************************************************************)
\* str.isalpha() of one ASCII character
isalpha(c) == c \in Lower \cup Upper

RECURSIVE alphabetic(_)
\* "".join(char for char in s if char.isalpha())
alphabetic(s) ==
    IF Len(s) = 0 THEN <<>>
    ELSE IF isalpha(s[1]) THEN <<s[1]>> \o alphabetic(Tail(s))
    ELSE alphabetic(Tail(s))

\* Mutant: every character of the identifier is kept
storage_account_name_unfiltered(IDENTIFIER) ==
    <<"s", "t", "o", "r", "e">> \o lower(IDENTIFIER)

\* "store" + "".join(char for char in IDENTIFIER if char.isalpha()).lower()
storage_account_name(IDENTIFIER) ==
    <<"s", "t", "o", "r", "e">> \o lower(alphabetic(IDENTIFIER))

(***************************************************************************)
(* The function apps: the image names of src/constants.py and the letter   *)
(* create_function_app names its resources with                            *)
(***************************************************************************)
\* rctab_infrastructure/constants.py: the default tag
DefaultTag == <<"1", ".", "l", "a", "t", "e", "s", "t">>

\* src/constants.py: the default tag
SrcDefaultTag == <<"0", ".", "l", "a", "t", "e", "s", "t">>

ImagePrefix == <<"t", "u", "r", "i", "n", "g", "r", "c", "/", "r", "c", "t", "a", "b", "-">>

\* Mutant: the default image names carry the default tag whatever RCTAB_TAG is
default_image_latest(app, RCTAB_TAG) == ImagePrefix \o app \o <<":">> \o DefaultTag

\* f"turingrc/rctab-{app}:{RCTAB_TAG}"
default_image(app, RCTAB_TAG) == ImagePrefix \o app \o <<":">> \o RCTAB_TAG

Api == <<"a", "p", "i">>
Usage == <<"u", "s", "a", "g", "e">>
Status == <<"s", "t", "a", "t", "u", "s">>
Controller == <<"c", "o", "n", "t", "r", "o", "l", "l", "e", "r">>

\* seq[-1]
last_of(seq) == seq[Len(seq)]

\* image_name.split("/")[-1].split("-")[-1][0]
first_letter(image_name) ==
    LET piece == last_of(split(last_of(split(image_name, "/")), "-"))
    IN  IF Len(piece) = 0
        THEN Raised("IndexError", "string index out of range", <<>>)
        ELSE Returned(<<piece[1]>>)

\* A resource named with the letter: its type and f"{first_letter}{rest}"
Lettered(type, letter, rest) == [type |-> type, letter |-> letter, rest |-> rest]

\* create_function_app: the resources it declares, or the exception
create_function_app(image_name) ==
    LET letter == first_letter(image_name)
    IN  IF ~letter.ok THEN letter
        ELSE Returned(<< Lettered("Component", letter.val, "-function-{IDENTIFIER}-"),
                         Lettered("WebApp", letter.val, "-function-{IDENTIFIER}-"),
                         Lettered("MetricAlert", letter.val, "-function-failure-alert") >>)

RECURSIVE create_function_apps(_)
\* The loop of set_up_function_apps over the image names: it ends at the
\* first exception
create_function_apps(images) ==
    IF Len(images) = 0 THEN Returned(<<>>)
    ELSE LET app == create_function_app(images[1])
             rest == create_function_apps(Tail(images))
         IN  IF ~app.ok THEN app
             ELSE IF ~rest.ok THEN rest
             ELSE Returned(app.val \o rest.val)

allowed_levels ==
    { <<"C", "R", "I", "T", "I", "C", "A", "L">>, <<"F", "A", "T", "A", "L">>,
      <<"E", "R", "R", "O", "R">>, <<"W", "A", "R", "N", "I", "N", "G">>,
      <<"W", "A", "R", "N">>, <<"I", "N", "F", "O">>, <<"D", "E", "B", "U", "G">>,
      <<"N", "O", "T", "S", "E", "T">> }

assert_valid_log_level(log_level) ==
    IF Truthy(log_level)
    THEN IF upper(log_level) \in allowed_levels
         THEN Returned(upper(log_level))
         ELSE Raised("AssertionError",
                     "{} not in ('CRITICAL', 'FATAL', 'ERROR', 'WARNING', 'WARN', 'INFO', 'DEBUG', 'NOTSET')",
                     upper(log_level))
    ELSE Returned(log_level)

\* The file system the program runs on: one regular file, one directory
CertFile == <<"c", "a", ".", "p", "e", "m">>
CertDir == <<"c", "e", "r", "t", "s">>
CertMissing == <<"n", "o", ".", "p", "e", "m">>
RegularFiles == {CertFile}
Directories == {CertDir}

\* Mutant: Path(filepath).exists()
exists(filepath) == filepath \in RegularFiles \cup Directories

\* Path(filepath).is_file()
is_file(filepath) == filepath \in RegularFiles

assert_is_file(filepath) ==
    IF is_file(filepath)
    THEN Returned(filepath)
    ELSE Raised("AssertionError", "", <<>>)

(***************************************************************************)
(* check_valid_ip_address: ipaddress.ip_address(ip2check) raises or not    *)
(***************************************************************************)
Digits == <<"0", "1", "2", "3", "4", "5", "6", "7", "8", "9">>

DigitValue(c) == (CHOOSE k \in 1..Len(Digits) : Digits[k] = c) - 1

RECURSIVE DecimalValue(_)
DecimalValue(s) ==
    IF Len(s) = 0 THEN 0
    ELSE 10 * DecimalValue(SubSeq(s, 1, Len(s) - 1)) + DigitValue(s[Len(s)])

Has(s, c) == \E i \in 1..Len(s) : s[i] = c

\* Mutant: an octet may start with zeros
parse_octet_ok_leading_zeros(octet_str) ==
    /\ Len(octet_str) > 0
    /\ \A i \in 1..Len(octet_str) : octet_str[i] \in Digit
    /\ Len(octet_str) <= 3
    /\ DecimalValue(octet_str) <= 255

\* IPv4Address._parse_octet does not raise
parse_octet_ok(octet_str) ==
    /\ Len(octet_str) > 0
    /\ \A i \in 1..Len(octet_str) : octet_str[i] \in Digit
    /\ Len(octet_str) <= 3
    /\ ~(octet_str # <<"0">> /\ octet_str[1] = "0")
    /\ DecimalValue(octet_str) <= 255

\* IPv4Address(address) does not raise
IPv4Address_ok(address) ==
    /\ ~Has(address, "/")
    /\ Len(address) > 0
    /\ LET octets == split(address, ".")
       IN  /\ Len(octets) = 4
           /\ \A i \in 1..4 : parse_octet_ok(octets[i])

\* _BaseV6._parse_hextet does not raise
parse_hextet_ok(hextet_str) ==
    /\ \A i \in 1..Len(hextet_str) : hextet_str[i] \in HexDigit
    /\ Len(hextet_str) <= 4
    /\ Len(hextet_str) > 0

\* _BaseV6._ip_int_from_string does not raise
ip6_int_from_string_ok(ip_str) ==
    /\ Len(ip_str) > 0
    /\ LET parts0 == split(ip_str, ":")
           last == parts0[Len(parts0)]
           v4 == Has(last, ".")
           parts == IF v4
                    THEN SubSeq(parts0, 1, Len(parts0) - 1) \o <<<<"0">>, <<"0">>>>
                    ELSE parts0
           n == Len(parts)
           skips == {i \in 2..(n - 1) : parts[i] = <<>>}
       IN  /\ Len(parts0) >= 3
           /\ v4 => IPv4Address_ok(last)
           /\ n <= 9
           /\ Cardinality(skips) <= 1
           /\ IF skips # {}
              THEN LET skip_index == CHOOSE i \in skips : TRUE
                       parts_hi == IF parts[1] = <<>> THEN skip_index - 2 ELSE skip_index - 1
                       parts_lo == IF parts[n] = <<>> THEN n - skip_index - 1 ELSE n - skip_index
                   IN  /\ parts[1] = <<>> => parts_hi = 0
                       /\ parts[n] = <<>> => parts_lo = 0
                       /\ 8 - (parts_hi + parts_lo) >= 1
                       /\ \A i \in 1..parts_hi : parse_hextet_ok(parts[i])
                       /\ \A i \in (n - parts_lo + 1)..n : parse_hextet_ok(parts[i])
              ELSE /\ n = 8
                   /\ \A i \in 1..n : parse_hextet_ok(parts[i])

\* IPv6Address(address) does not raise
IPv6Address_ok(address) ==
    /\ ~Has(address, "/")
    /\ IF Has(address, "%")
       THEN LET at == CHOOSE i \in 1..Len(address) :
                          address[i] = "%" /\ \A j \in 1..(i - 1) : address[j] # "%"
                scope_id == SubSeq(address, at + 1, Len(address))
            IN  /\ Len(scope_id) > 0
                /\ ~Has(scope_id, "%")
                /\ ip6_int_from_string_ok(SubSeq(address, 1, at - 1))
       ELSE ip6_int_from_string_ok(address)

check_valid_ip_address(ip2check) ==
    IF IPv4Address_ok(ip2check) \/ IPv6Address_ok(ip2check)
    THEN Returned(ip2check)
    ELSE Raised("ValueError", "{} does not appear to be an IPv4 or IPv6 address", ip2check)

\* A resource declaration: the resource's name as the source writes it and
\* the validated constants among its arguments
Resource(name, uses) == [name |-> name, uses |-> uses]

(***************************************************************************)
(* A single call is made outside any run of the deployment program, and    *)
(* the deployment program makes no harness call.                           *)
(***************************************************************************)
RunIdle ==
    /\ config = <<>>
    /\ pc = "idle"
    /\ consts = <<>>
    /\ outputs = <<>>
    /\ ran = <<>>
    /\ xorCalls = <<>>
    /\ declared = <<>>
    /\ error = NoResult

CallIdle ==
    /\ fn = "none"
    /\ args = <<>>
    /\ ret = NoResult

(***************************************************************************)
(* A validator that maps a string to a string can be called again on the   *)
(* value it returned.                                                      *)
(***************************************************************************)
StrToStr ==
    {"assert_str_true_or_false", "assert_valid_log_level", "assert_valid_uuid_list",
     "assert_valid_int_list", "check_valid_ip_address", "format_list_str"}

Apply(f, x) ==
    CASE f = "assert_str_true_or_false" -> assert_str_true_or_false(x)
      [] f = "assert_valid_log_level" -> assert_valid_log_level(x)
      [] f = "assert_valid_uuid_list" -> assert_valid_uuid_list(x)
      [] f = "assert_valid_int_list" -> assert_valid_int_list(x)
      [] f = "check_valid_ip_address" -> check_valid_ip_address(x)
      [] f = "format_list_str" -> format_list_str(x)

\* The function is called on its own result, when that is a string other
\* than the argument it was given
CallAgain ==
    /\ fn \in StrToStr
    /\ ret.done
    /\ ret.ok
    /\ ret.val # None
    /\ ret.val # args
    /\ Len(ret.val) <= MaxAgainLen
    /\ args' = ret.val
    /\ ret' = Apply(fn, ret.val)
    /\ UNCHANGED <<fn, runVars>>

(***************************************************************************)
(* Inputs of the identifier validator: strings of one repeated letter with *)
(* at most one other character (upper case, digit, hyphen or a character   *)
(* outside the pattern) at any position.                                   *)
(***************************************************************************)
OddChars == {"Z", "7", "-", "_", "."}

StrsOf(c, n) ==
    {[i \in 1..k |-> c] : k \in 0..n}
    \cup {[i \in 1..k |-> IF i = p THEN o ELSE c] : k \in 1..n, p \in 1..n, o \in OddChars}

Tickers == StrsOf("t", MaxTickerLen)
Stacks == StrsOf("s", MaxStackLen)

\* The copy in rctab_infrastructure/utils.py and the copy in src/utils.py
TickerFns ==
    {"validate_ticker_stack_combination", "src.utils.validate_ticker_stack_combination"}

InitTicker ==
    /\ fn \in TickerFns
    /\ args \in Tickers \X Stacks
    /\ ret = NoResult
    /\ RunIdle

CallValidateTickerStack ==
    /\ fn = "validate_ticker_stack_combination"
    /\ ~ret.done
    /\ ret' = validate_ticker_stack_combination(args[1], args[2])
    /\ UNCHANGED <<fn, args, runVars>>

CallSrcValidateTickerStack ==
    /\ fn = "src.utils.validate_ticker_stack_combination"
    /\ ~ret.done
    /\ ret' = src_validate_ticker_stack_combination(args[1], args[2])
    /\ UNCHANGED <<fn, args, runVars>>

\* set_up_function_apps declares the storage account under the name it
\* builds from the identifier the validator returned
DeclareStorageAccount ==
    /\ fn \in TickerFns
    /\ ret.done
    /\ ret.ok
    /\ declared = <<>>
    /\ declared' = <<Resource(storage_account_name(ret.val), {"IDENTIFIER"})>>
    /\ UNCHANGED <<callVars, config, pc, consts, outputs, ran, xorCalls, error>>

NextTicker ==
    \/ CallValidateTickerStack
    \/ CallSrcValidateTickerStack
    \/ DeclareStorageAccount

SpecTicker == InitTicker /\ [][NextTicker]_vars

(***************************************************************************)
(* raise_billing_or_mgmt                                                   *)
(***************************************************************************)
NameValuePairArgs(n, v) == [name |-> n, value |-> v]

BothSetMessage ==
    "Only one of billing_account_id or usage_mgmt_group should be set but both are."
NeitherSetMessage ==
    "One of billing_account_id or usage_mgmt_group should be set but neither is."

\* Mutant: one merged check with one message for both failures
raise_billing_or_mgmt_merged(kwargs) ==
    LET billing == kwargs.billing
        mgmt == kwargs.mgmt
    IN  IF (Truthy(billing) /\ Truthy(mgmt)) \/ (~Truthy(billing) /\ ~Truthy(mgmt))
        THEN Raised("ValueError", NeitherSetMessage, <<>>)
        ELSE IF Truthy(billing)
        THEN Returned(NameValuePairArgs("BILLING_ACCOUNT_ID", billing))
        ELSE Returned(NameValuePairArgs("MGMT_GROUP", mgmt))

raise_billing_or_mgmt(kwargs) ==
    LET billing == kwargs.billing
        mgmt == kwargs.mgmt
    IN  IF Truthy(billing) /\ Truthy(mgmt)
        THEN Raised("ValueError", BothSetMessage, <<>>)
        ELSE IF ~Truthy(billing) /\ ~Truthy(mgmt)
        THEN Raised("ValueError", NeitherSetMessage, <<>>)
        ELSE IF Truthy(billing)
        THEN Returned(NameValuePairArgs("BILLING_ACCOUNT_ID", billing))
        ELSE Returned(NameValuePairArgs("MGMT_GROUP", mgmt))

\* Inputs: every string of up to MaxChoiceLen characters, blanks included
ChoiceChars == {"x", " "}
ChoiceStrs == UNION {[1..k -> ChoiceChars] : k \in 0..MaxChoiceLen}

InitChoice ==
    /\ fn = "raise_billing_or_mgmt"
    /\ args \in [billing : ChoiceStrs, mgmt : ChoiceStrs]
    /\ ret = NoResult
    /\ RunIdle

CallRaiseBillingOrMgmt ==
    /\ fn = "raise_billing_or_mgmt"
    /\ ~ret.done
    /\ ret' = raise_billing_or_mgmt(args)
    /\ UNCHANGED <<fn, args, runVars>>

NextChoice == CallRaiseBillingOrMgmt

SpecChoice == InitChoice /\ [][NextChoice]_vars

(***************************************************************************)
(* Inputs of the list functions: None, the empty string, and up to         *)
(* MaxItems items joined by commas.  The items carry their own padding.    *)
(***************************************************************************)
Rep(c, n) == [i \in 1..n |-> c]

\* The canonical 8-4-4-4-12 text of the UUID whose digits are all c
Canonical(c) ==
    join(<<"-">>, <<Rep(c, 8), Rep(c, 4), Rep(c, 4), Rep(c, 4), Rep(c, 12)>>)

StrItems ==
    { <<"a", "b", "c">>, <<" ", "d", "e", "f">>, <<" ", "g", "h", "i">>,
      <<>>, <<"\t", "x", " ", "y", " ">>, <<"\"">> }

UuidItems ==
    { Canonical("0"),
      <<" ">> \o Canonical("1"),
      <<"h", "i">>,
      <<" ">> \o Tail(Canonical("0")) \o <<" ">>,
      <<" ", "a", "b", "c">>,
      <<>> }

IntItems ==
    { <<"1">>, <<" ", "7">>, <<" ", "1", "4", " ">>, <<"1", "2", ".", "4">>,
      <<"-", "1">>, <<>>, <<" ", "2">>, <<"1", " ", "4">> }

\* The input the tests of the string list functions use
AbcDefGhi == <<"a", "b", "c", ",", " ", "d", "e", "f", ",", " ", "g", "h", "i">>

\* The inputs the tests of the integer list functions use
OneTwo == <<"1", ",", " ", "2">>
OneSevenFourteenTwentyOne ==
    <<"1", ",", " ", "7", ",", " ", "1", "4", ",", " ", "2", "1">>

ListExamples(f) ==
    IF f \in {"format_list_int", "assert_valid_int_list"}
    THEN {OneTwo, OneSevenFourteenTwentyOne}
    ELSE {}

ListFns ==
    {"format_list_str", "format_list_int", "assert_valid_uuid_list", "assert_valid_int_list"}

ItemsOf(f) ==
    CASE f = "format_list_str" -> StrItems
      [] f = "format_list_int" -> IntItems
      [] f = "assert_valid_uuid_list" -> UuidItems
      [] f = "assert_valid_int_list" -> IntItems

ListInputs(f) ==
    {None, <<>>}
    \cup {join(<<",">>, l) : l \in UNION {[1..k -> ItemsOf(f)] : k \in 1..MaxItems}}
    \cup ListExamples(f)

InitList ==
    /\ fn \in ListFns
    /\ args \in ListInputs(fn)
    /\ ret = NoResult
    /\ RunIdle

CallFormatListStr ==
    /\ fn = "format_list_str"
    /\ ~ret.done
    /\ ret' = format_list_str(args)
    /\ UNCHANGED <<fn, args, runVars>>

CallFormatListInt ==
    /\ fn = "format_list_int"
    /\ ~ret.done
    /\ ret' = format_list_int(args)
    /\ UNCHANGED <<fn, args, runVars>>

CallAssertValidUuidList ==
    /\ fn = "assert_valid_uuid_list"
    /\ ~ret.done
    /\ ret' = assert_valid_uuid_list(args)
    /\ UNCHANGED <<fn, args, runVars>>

CallAssertValidIntList ==
    /\ fn = "assert_valid_int_list"
    /\ ~ret.done
    /\ ret' = assert_valid_int_list(args)
    /\ UNCHANGED <<fn, args, runVars>>

NextList ==
    \/ CallFormatListStr
    \/ CallFormatListInt
    \/ CallAssertValidUuidList
    \/ CallAssertValidIntList
    \/ CallAgain

SpecList == InitList /\ [][NextList]_vars

(***************************************************************************)
(* The secret list of administrators' addresses: admin_email_recipients is *)
(* unset, empty or a list of up to MaxItems items.                         *)
(***************************************************************************)
AddressItems ==
    { <<"a", "@", "b">>, <<" ", "c", "@", "d", " ">>, <<"e">>, <<>>,
      <<"f", " ", "@", "g">>, <<"@", "h">>, <<"i", "@", "j", "@", "k">>,
      <<" ", "\"", "l", "\"">> }

SecretFns == {"format_secret_list_str", "create_action_group"}

SecretInputs ==
    {None, <<>>, AbcDefGhi}
    \cup {join(<<",">>, l) : l \in UNION {[1..k -> AddressItems] : k \in 1..MaxItems}}

InitSecret ==
    /\ fn \in SecretFns
    /\ args \in SecretInputs
    /\ ret = NoResult
    /\ RunIdle

CallFormatSecretListStr ==
    /\ fn = "format_secret_list_str"
    /\ ~ret.done
    /\ ret' = format_secret_list_str(args)
    /\ UNCHANGED <<fn, args, runVars>>

\* constants.py formats the secret and create_action_group builds the
\* receivers from the formatted list
CallCreateActionGroup ==
    /\ fn = "create_action_group"
    /\ ~ret.done
    /\ LET ADMIN_EMAIL_RECIPIENTS == format_secret_list_str(args).val
       IN  ret' = Returned(email_receivers(ADMIN_EMAIL_RECIPIENTS))
    /\ UNCHANGED <<fn, args, runVars>>

NextSecret ==
    \/ CallFormatSecretListStr
    \/ CallCreateActionGroup

SpecSecret == InitSecret /\ [][NextSecret]_vars

(***************************************************************************)
(* The function apps of a stack whose image names are left at their        *)
(* defaults: rctab_tag is unset, empty or a tag of up to MaxTagLen         *)
(* characters.                                                             *)
(***************************************************************************)
TagChars == {"1", ".", "-", "r"}

Tags(n) == UNION {[1..k -> TagChars] : k \in 0..n}

InitApps ==
    /\ fn = "set_up_function_apps"
    /\ args \in {None} \cup Tags(MaxTagLen)
    /\ ret = NoResult
    /\ RunIdle

\* src/constants.py builds the image names from rctab_tag, and
\* set_up_function_apps creates one function app for each
CallSetUpFunctionApps ==
    /\ fn = "set_up_function_apps"
    /\ ~ret.done
    /\ LET RCTAB_TAG == str_or(args, SrcDefaultTag)
           DOCKER_USAGE_IMAGE == str_or(None, default_image(Usage, RCTAB_TAG))
           DOCKER_STATUS_IMAGE == str_or(None, default_image(Status, RCTAB_TAG))
           DOCKER_CONTROLLER_IMAGE == str_or(None, default_image(Controller, RCTAB_TAG))
       IN  ret' = create_function_apps(
                      <<DOCKER_USAGE_IMAGE, DOCKER_STATUS_IMAGE, DOCKER_CONTROLLER_IMAGE>>)
    /\ UNCHANGED <<fn, args, runVars>>

NextApps == CallSetUpFunctionApps

SpecApps == InitApps /\ [][NextApps]_vars

(***************************************************************************)
(* Inputs of is_valid_uuid: 31 to 33 digits, hyphens after any of the      *)
(* digits 4, 8, 12, 16 and 20, at most one digit replaced by another       *)
(* character, bare or wrapped as a URN or in braces.                       *)
(***************************************************************************)
DigitCounts == {31, 32, 33}
HyphenAfter == {4, 8, 12, 16, 20}
ReplacedAt == {1, 2, 32}
Replacements == {"g", "_", "+", " ", "x"}

UuidDigits ==
    {Rep("0", n) : n \in DigitCounts}
    \cup {[i \in 1..n |-> IF i = p THEN c ELSE "0"] :
             n \in DigitCounts, p \in ReplacedAt, c \in Replacements}

Hyphenated(d, H) ==
    join(<<>>, [i \in 1..Len(d) |-> IF i \in H THEN <<d[i], "-">> ELSE <<d[i]>>])

UuidBodies == {Hyphenated(d, H) : d \in UuidDigits, H \in SUBSET HyphenAfter}

UuidInputs ==
    UuidBodies
    \cup {<<"u", "r", "n", ":", "u", "u", "i", "d", ":">> \o b : b \in UuidBodies}
    \cup {<<"{">> \o b \o <<"}">> : b \in UuidBodies}

InitUuid ==
    /\ fn = "is_valid_uuid"
    /\ args \in UuidInputs
    /\ ret = NoResult
    /\ RunIdle

CallIsValidUuid ==
    /\ fn = "is_valid_uuid"
    /\ ~ret.done
    /\ ret' = Returned(is_valid_uuid(args))
    /\ UNCHANGED <<fn, args, runVars>>

NextUuid == CallIsValidUuid

SpecUuid == InitUuid /\ [][NextUuid]_vars

(***************************************************************************)
(* Inputs of the validators of a single value.  Boolean strings and log    *)
(* levels in every mix of upper and lower case; paths of a file, of a      *)
(* directory and of nothing; addresses of up to MaxOctets octets or        *)
(* MaxGroups groups, at most two of them unusual.                          *)
(***************************************************************************)
CaseVariants(s) ==
    {[i \in 1..Len(s) |-> IF i \in U THEN upper(<<s[i]>>)[1] ELSE lower(<<s[i]>>)[1]] :
        U \in SUBSET (1..Len(s))}

BoolInputs ==
    {None, <<>>}
    \cup CaseVariants(TrueStr)
    \cup CaseVariants(FalseStr)
    \cup {<<" ", "t", "r", "u", "e">>, <<"t", "r", "u", "e", " ">>,
          <<"y", "e", "s">>, <<"1">>}

LevelInputs ==
    {None, <<>>}
    \cup UNION {CaseVariants(level) : level \in allowed_levels}
    \cup {<<"b", "o", "g", "u", "s">>, <<"h", "i">>, <<" ", "i", "n", "f", "o">>,
          <<"i", "n", "f", "o", "s">>}

PathInputs == {CertFile, CertDir, CertMissing, <<>>}

\* The two addresses the test of check_valid_ip_address uses
ValidIp == <<"1", "9", "2", ".", "1", "6", "8", ".", "1", "2", "3", ".", "1", "3", "2">>
LeadingZeroIp == <<"0", "9", "2", ".", "1", "6", "8", ".", "1", "2", "3", ".", "1", "3", "2">>

OddOctets ==
    { <<"0">>, <<"0", "0">>, <<"0", "9", "2">>, <<"1", "3", "2">>, <<"2", "5", "5">>,
      <<"2", "5", "6">>, <<"1", "2", "3", "4">>, <<>>, <<" ", "1">>, <<"a">>,
      <<"1", "/", "2">> }

OddGroups ==
    { <<>>, <<"f", "f", "f", "f">>, <<"1", "2", "3", "4", "5">>, <<"g">>,
      <<"0", "0", "0", "1">>, <<"1", ".", "2", ".", "3", ".", "4">>,
      <<"0", "9", "2", ".", "1", ".", "1", ".", "1">>, <<"1", "%", "e">>, <<"%">>,
      <<"1", "/", "6">> }

\* n parts, each base except at most two taken from odds
WithOdd(n, base, odds) ==
    {[i \in 1..n |-> base]}
    \cup {[i \in 1..n |-> IF i = p THEN a ELSE base] : p \in 1..n, a \in odds}
    \cup {[i \in 1..n |-> IF i = p THEN a ELSE IF i = q THEN b ELSE base] :
             p \in 1..n, q \in 2..n, a \in odds, b \in odds}

IpExamples ==
    { ValidIp, LeadingZeroIp, <<>>, <<":", ":">>, <<":", ":", ":">>,
      <<"f", "e", "8", "0", ":", ":", "1", "%", "e", "t", "h", "0">>,
      <<"1", ":", ":", "%", "a", "%", "b">>, <<":", ":", "1", "/", "6", "4">> }

IpInputs(octets, groups) ==
    IpExamples
    \cup {join(<<".">>, l) : l \in UNION {WithOdd(n, <<"1">>, OddOctets) : n \in 1..octets}}
    \cup {join(<<":">>, l) : l \in UNION {WithOdd(n, <<"1">>, OddGroups) : n \in 1..groups}}

ScalarFns ==
    {"assert_str_true_or_false", "assert_valid_log_level", "assert_is_file",
     "check_valid_ip_address"}

ScalarInputs(f) ==
    CASE f = "assert_str_true_or_false" -> BoolInputs
      [] f = "assert_valid_log_level" -> LevelInputs
      [] f = "assert_is_file" -> PathInputs
      [] f = "check_valid_ip_address" -> IpInputs(MaxOctets, MaxGroups)

InitScalar ==
    /\ fn \in ScalarFns
    /\ args \in ScalarInputs(fn)
    /\ ret = NoResult
    /\ RunIdle

CallAssertStrTrueOrFalse ==
    /\ fn = "assert_str_true_or_false"
    /\ ~ret.done
    /\ ret' = assert_str_true_or_false(args)
    /\ UNCHANGED <<fn, args, runVars>>

CallAssertValidLogLevel ==
    /\ fn = "assert_valid_log_level"
    /\ ~ret.done
    /\ ret' = assert_valid_log_level(args)
    /\ UNCHANGED <<fn, args, runVars>>

CallAssertIsFile ==
    /\ fn = "assert_is_file"
    /\ ~ret.done
    /\ ret' = assert_is_file(args)
    /\ UNCHANGED <<fn, args, runVars>>

CallCheckValidIpAddress ==
    /\ fn = "check_valid_ip_address"
    /\ ~ret.done
    /\ ret' = check_valid_ip_address(args)
    /\ UNCHANGED <<fn, args, runVars>>

NextScalar ==
    \/ CallAssertStrTrueOrFalse
    \/ CallAssertValidLogLevel
    \/ CallAssertIsFile
    \/ CallCheckValidIpAddress
    \/ CallAgain

SpecScalar == InitScalar /\ [][NextScalar]_vars

(***************************************************************************)
(* The deployment program.  Importing the constants module loads and       *)
(* validates the configuration statement by statement; an exception ends   *)
(* the program.  The main module then declares the resources.  A callback  *)
(* attached with Output.apply is not run by the statement that attaches    *)
(* it: the event loop runs it once, at some later moment, and an exception *)
(* in it fails that Output without stopping the statements of the program. *)
(* create_webapp raises NameError before it declares anything, because     *)
(* webapp.py reads EXPIRY_EMAIL_FREQ without importing it, so the          *)
(* statements after it, set_up_function_apps among them, are never run.    *)
(***************************************************************************)
STACK_NAME == <<"d", "e", "v">>

ValidTicker == <<"t", "k", "r">>
ShortTicker == <<"t">>
AccountId == <<"a", "c", "c", "t">>
GroupId == <<"g", "r", "p">>

\* The values each configuration key is drawn from; None is an unset key
ConfigValues ==
    [ticker : {None, ValidTicker, ShortTicker},
     auto_deploy : {None, <<>>, TrueStr, FalseStr, <<"T", "r", "u", "e">>},
     primary_ip_address : {None, ValidIp, LeadingZeroIp},
     db_root_cert_path : {None, CertFile, CertDir},
     expiry_email_freq : {None, <<"1", ",", " ", "7">>, <<"1", "2", ".", "4">>},
     ignore_whitelist : {None, FalseStr, <<"n", "o">>},
     whitelist : {None, Canonical("a"), <<"h", "i">>},
     log_level : {None, <<"i", "n", "f", "o">>, <<"b", "o", "g", "u", "s">>},
     billing_account_id : {None, <<>>, AccountId},
     usage_mgmt_group : {None, GroupId},
     rctab_tag : {None},
     docker_api_image : {None},
     docker_usage_image : {None},
     docker_status_image : {None},
     docker_controller_image : {None},
     sendgrid_api_key : {None},
     sendgrid_sender_email : {None},
     notifiable_roles : {None},
     roles_filter : {None},
     admin_email_recipients : {None}]

\* A tag and an image name of the stack's own
OwnTag == <<"2", ".", "0">>
OwnImage == <<"m", "y", "/", "i", "m", "g", ":", "3">>

\* Configurations that pass every validation, the image tag and the four
\* image names each unset, empty or the stack's own
ImageConfigValues ==
    [ticker : {ValidTicker},
     auto_deploy : {None},
     primary_ip_address : {ValidIp},
     db_root_cert_path : {CertFile},
     expiry_email_freq : {<<"1", ",", " ", "7">>},
     ignore_whitelist : {FalseStr},
     whitelist : {Canonical("a")},
     log_level : {<<"i", "n", "f", "o">>},
     billing_account_id : {AccountId},
     usage_mgmt_group : {None},
     rctab_tag : {None, <<>>, OwnTag},
     docker_api_image : {None, <<>>, OwnImage},
     docker_usage_image : {None, <<>>, OwnImage},
     docker_status_image : {None, <<>>, OwnImage},
     docker_controller_image : {None, <<>>, OwnImage},
     sendgrid_api_key : {None},
     sendgrid_sender_email : {None},
     notifiable_roles : {None},
     roles_filter : {None},
     admin_email_recipients : {None}]

\* config.require(key)
require(value, key) ==
    IF value = None
    THEN Raised("ConfigMissingError", "Missing required configuration variable '{}'", <<key>>)
    ELSE Returned(value)

\* Mutant: an unset secret stays unset
secret_or_unset(value, default) == value

\* config.get_secret(key) or Output.secret(default): the value the Output
\* resolves to.  An Output object is truthy whatever it holds.
secret_or(value, default) == IF value # None THEN value ELSE default

\* An Output whose value is known
Resolved(v) == [input |-> v, result |-> Returned(v)]

\* The Output of input.apply(callback), the callback not yet run
Pending(v) == [input |-> v, result |-> NoResult]

InitRun ==
    /\ CallIdle
    /\ config \in ConfigValues
    /\ pc = "IDENTIFIER"
    /\ consts = <<>>
    /\ outputs = <<>>
    /\ ran = <<>>
    /\ xorCalls = <<>>
    /\ declared = <<>>
    /\ error = NoResult

InitImages ==
    /\ CallIdle
    /\ config \in ImageConfigValues
    /\ pc = "IDENTIFIER"
    /\ consts = <<>>
    /\ outputs = <<>>
    /\ ran = <<>>
    /\ xorCalls = <<>>
    /\ declared = <<>>
    /\ error = NoResult

\* Mutant: an exception is kept but the next statement runs all the same
Proceed_regardless(result, next) ==
    /\ pc' = next
    /\ error' = IF ~result.ok /\ ~error.done THEN result ELSE error

\* The statement returned and the next one is reached, or it raised and
\* the program ends with that exception
Proceed(result, next) ==
    IF result.ok
    THEN pc' = next /\ error' = error
    ELSE pc' = "failed" /\ error' = result

\* constants.py: ORGANISATION, TICKER, IDENTIFIER
LoadIdentifier ==
    /\ pc = "IDENTIFIER"
    /\ LET TICKER == require(config.ticker, "ticker")
       IN  IF ~TICKER.ok
           THEN /\ Proceed(TICKER, "AUTO_DEPLOY")
                /\ UNCHANGED <<consts, ran>>
           ELSE LET IDENTIFIER == validate_ticker_stack_combination(TICKER.val, STACK_NAME)
                IN  /\ ran' = Append(ran, "ticker")
                    /\ Proceed(IDENTIFIER, "AUTO_DEPLOY")
                    /\ consts' = IF IDENTIFIER.ok
                                 THEN consts @@ ("TICKER" :> TICKER.val)
                                             @@ ("IDENTIFIER" :> IDENTIFIER.val)
                                 ELSE consts
    /\ UNCHANGED <<callVars, config, outputs, xorCalls, declared>>

\* constants.py: RCTAB_TAG, AUTO_DEPLOY, DOCKER_API_IMAGE, DOCKER_USAGE_IMAGE,
\* DOCKER_STATUS_IMAGE, DOCKER_CONTROLLER_IMAGE
LoadAutoDeploy ==
    /\ pc = "AUTO_DEPLOY"
    /\ LET RCTAB_TAG == str_or(config.rctab_tag, DefaultTag)
           checked == assert_str_true_or_false(config.auto_deploy)
       IN  /\ ran' = Append(ran, "auto_deploy")
           /\ Proceed(checked, "PRIMARY_IP")
           /\ consts' =
                  IF checked.ok
                  THEN consts
                       @@ ("RCTAB_TAG" :> RCTAB_TAG)
                       @@ ("AUTO_DEPLOY" :> str_or(checked.val, TrueStr))
                       @@ ("DOCKER_API_IMAGE" :>
                              str_or(config.docker_api_image, default_image(Api, RCTAB_TAG)))
                       @@ ("DOCKER_USAGE_IMAGE" :>
                              str_or(config.docker_usage_image, default_image(Usage, RCTAB_TAG)))
                       @@ ("DOCKER_STATUS_IMAGE" :>
                              str_or(config.docker_status_image, default_image(Status, RCTAB_TAG)))
                       @@ ("DOCKER_CONTROLLER_IMAGE" :>
                              str_or(config.docker_controller_image,
                                     default_image(Controller, RCTAB_TAG)))
                  ELSE consts @@ ("RCTAB_TAG" :> RCTAB_TAG)
    /\ UNCHANGED <<callVars, config, outputs, xorCalls, declared>>

\* constants.py: PRIMARY_IP; the check is attached, not run
LoadPrimaryIp ==
    /\ pc = "PRIMARY_IP"
    /\ LET secret == require(config.primary_ip_address, "primary_ip_address")
       IN  /\ Proceed(secret, "DB_ROOT_CERT_PATH")
           /\ outputs' = IF secret.ok
                         THEN outputs @@ ("PRIMARY_IP" :> Pending(secret.val))
                         ELSE outputs
    /\ UNCHANGED <<callVars, config, consts, ran, xorCalls, declared>>

\* constants.py: DB_ROOT_CERT_PATH
LoadDbRootCertPath ==
    /\ pc = "DB_ROOT_CERT_PATH"
    /\ LET path == require(config.db_root_cert_path, "db_root_cert_path")
       IN  /\ Proceed(path, "EXPIRY_EMAIL_FREQ")
           /\ consts' = IF path.ok
                        THEN consts @@ ("DB_ROOT_CERT_PATH" :> path.val)
                        ELSE consts
    /\ UNCHANGED <<callVars, config, outputs, ran, xorCalls, declared>>

\* constants.py: SENDGRID_API_KEY, SENDGRID_SENDER_EMAIL, EXPIRY_EMAIL_FREQ,
\* NOTIFIABLE_ROLES, ROLES_FILTER, ADMIN_EMAIL_RECIPIENTS; a secret is kept
\* as the string its Output carries, None when there is no Output
LoadExpiryEmailFreq ==
    /\ pc = "EXPIRY_EMAIL_FREQ"
    /\ LET sendgrid == consts
                       @@ ("SENDGRID_API_KEY" :> config.sendgrid_api_key)
                       @@ ("SENDGRID_SENDER_EMAIL" :> config.sendgrid_sender_email)
           checked == assert_valid_int_list(config.expiry_email_freq)
       IN  /\ ran' = Append(ran, "expiry_email_freq")
           /\ Proceed(checked, "IGNORE_WHITELIST")
           /\ consts' =
                  IF checked.ok
                  THEN sendgrid
                       @@ ("EXPIRY_EMAIL_FREQ" :> checked.val)
                       @@ ("NOTIFIABLE_ROLES" :> format_list_str(config.notifiable_roles).val)
                       @@ ("ROLES_FILTER" :> format_list_str(config.roles_filter).val)
                       @@ ("ADMIN_EMAIL_RECIPIENTS" :>
                              format_secret_list_str(config.admin_email_recipients).val)
                  ELSE sendgrid
    /\ UNCHANGED <<callVars, config, outputs, xorCalls, declared>>

\* constants.py: IGNORE_WHITELIST
LoadIgnoreWhitelist ==
    /\ pc = "IGNORE_WHITELIST"
    /\ LET checked == assert_str_true_or_false(config.ignore_whitelist)
       IN  /\ ran' = Append(ran, "ignore_whitelist")
           /\ Proceed(checked, "WHITELIST")
           /\ consts' = IF checked.ok
                        THEN consts @@ ("IGNORE_WHITELIST" :> checked.val)
                        ELSE consts
    /\ UNCHANGED <<callVars, config, outputs, xorCalls, declared>>

\* constants.py: WHITELIST
LoadWhitelist ==
    /\ pc = "WHITELIST"
    /\ LET checked == assert_valid_uuid_list(config.whitelist)
       IN  /\ ran' = Append(ran, "whitelist")
           /\ Proceed(checked, "LOG_LEVEL")
           /\ consts' = IF checked.ok
                        THEN consts @@ ("WHITELIST" :> format_list_str(checked.val).val)
                        ELSE consts
    /\ UNCHANGED <<callVars, config, outputs, xorCalls, declared>>

\* constants.py: LOG_LEVEL
LoadLogLevel ==
    /\ pc = "LOG_LEVEL"
    /\ LET checked == assert_valid_log_level(config.log_level)
       IN  /\ ran' = Append(ran, "log_level")
           /\ Proceed(checked, "BILLING_OR_MGMT")
           /\ consts' = IF checked.ok
                        THEN consts @@ ("LOG_LEVEL" :> checked.val)
                        ELSE consts
    /\ UNCHANGED <<callVars, config, outputs, xorCalls, declared>>

\* Output.all(billing=BILLING_ACCOUNT_ID, mgmt=MGMT_GROUP): the dictionary
\* of the values the two Outputs resolved to
Output_all(outs) ==
    [billing |-> outs["BILLING_ACCOUNT_ID"].result.val,
     mgmt |-> outs["MGMT_GROUP"].result.val]

\* constants.py: BILLING_ACCOUNT_ID, MGMT_GROUP, BILLING_OR_MGMT; the check
\* is attached, not run
LoadBillingOrMgmt ==
    /\ pc = "BILLING_OR_MGMT"
    /\ LET both == outputs
                   @@ ("BILLING_ACCOUNT_ID" :> Resolved(secret_or(config.billing_account_id, <<>>)))
                   @@ ("MGMT_GROUP" :> Resolved(secret_or(config.usage_mgmt_group, <<>>)))
       IN  outputs' = both @@ ("BILLING_OR_MGMT" :> Pending(Output_all(both)))
    /\ pc' = "assert_is_file"
    /\ UNCHANGED <<callVars, config, consts, ran, xorCalls, declared, error>>

\* constants.py: assert_is_file(DB_ROOT_CERT_PATH)
AssertIsFile ==
    /\ pc = "assert_is_file"
    /\ ran' = Append(ran, "db_root_cert_path")
    /\ Proceed(assert_is_file(consts["DB_ROOT_CERT_PATH"]), "set_up_logging")
    /\ UNCHANGED <<callVars, config, consts, outputs, xorCalls, declared>>

\* __main__.py: set_up_logging()
SetUpLogging ==
    /\ pc = "set_up_logging"
    /\ declared' = declared \o
           << Resource("rctab-central-logging-{IDENTIFIER}-", {"IDENTIFIER"}),
              Resource("rctab-workspace-{IDENTIFIER}-", {"IDENTIFIER"}),
              Resource("rctab-logging-{IDENTIFIER}-", {"IDENTIFIER"}) >>
    /\ pc' = "create_action_group"
    /\ UNCHANGED <<callVars, config, consts, outputs, ran, xorCalls, error>>

\* __main__.py: create_action_group(logging_resouce_group.name)
CreateActionGroup ==
    /\ pc = "create_action_group"
    /\ declared' = Append(declared, Resource("RCTab-Admin-Action-Group", {}))
    /\ pc' = "PrivateKey"
    /\ UNCHANGED <<callVars, config, consts, outputs, ran, xorCalls, error>>

\* __main__.py: usage_key, status_key, controller_key
CreatePrivateKeys ==
    /\ pc = "PrivateKey"
    /\ declared' = declared \o
           << Resource("usage-app-key", {}),
              Resource("status-app-key", {}),
              Resource("controller-app-key", {}) >>
    /\ pc' = "set_up_api"
    /\ UNCHANGED <<callVars, config, consts, outputs, ran, xorCalls, error>>

\* api.py: set_up_api up to the call of create_webapp; of its declarations,
\* those that take a validated constant
SetUpApi ==
    /\ pc = "set_up_api"
    /\ declared' = declared \o
           << Resource("rctab-{IDENTIFIER}-", {"IDENTIFIER"}),
              Resource("rctab-app-plan-{IDENTIFIER}-", {"IDENTIFIER"}),
              Resource("rctab-{IDENTIFIER}-", {"IDENTIFIER"}),
              Resource("{IDENTIFIER}-vlt", {"IDENTIFIER"}),
              Resource("rctab-database-{IDENTIFIER}-", {"IDENTIFIER"}),
              Resource("{DATABASE_NAME}-{IDENTIFIER}-", {"IDENTIFIER"}),
              Resource("access_ip", {"PRIMARY_IP"}),
              Resource("database_config_provider", {"DB_ROOT_CERT_PATH"}) >>
    /\ pc' = "create_webapp"
    /\ UNCHANGED <<callVars, config, consts, outputs, ran, xorCalls, error>>

\* webapp.py: the names the module imports from the constants module
WebappImports ==
    {"AD_API_CLIENT_ID", "AD_API_CLIENT_SECRET", "AD_TENANT_ID", "ADMIN_EMAIL_RECIPIENTS",
     "APP_MODULE", "AUTO_DEPLOY", "DOCKER_API_IMAGE", "DOCKER_REGISTRY_SERVER_PASSWORD",
     "DOCKER_REGISTRY_SERVER_URL", "DOCKER_REGISTRY_SERVER_USERNAME", "IDENTIFIER",
     "IGNORE_WHITELIST", "LOG_LEVEL", "NOTIFIABLE_ROLES", "ORGANISATION", "RCTAB_APP_USER",
     "ROLES_FILTER", "SENDGRID_API_KEY", "SENDGRID_SENDER_EMAIL", "SESSION_TIMEOUT_MINUTES",
     "WHITELIST"}

\* webapp.py: the optional settings, in the order the list names them
AdditionalSettingNames ==
    <<"SENDGRID_API_KEY", "SENDGRID_SENDER_EMAIL", "EXPIRY_EMAIL_FREQ", "NOTIFIABLE_ROLES",
      "ROLES_FILTER", "ADMIN_EMAIL_RECIPIENTS", "IGNORE_WHITELIST", "WHITELIST", "LOG_LEVEL">>

\* The constants that are Outputs when set
OutputConstants == {"SENDGRID_API_KEY", "SENDGRID_SENDER_EMAIL", "ADMIN_EMAIL_RECIPIENTS"}

\* "if item[1]": an Output is truthy whatever it carries
item_truthy(name, value) ==
    IF name \in OutputConstants THEN value # None ELSE Truthy(value)

\* webapp.py: additional_settings, evaluated with the module's global names.
\* The list of [name, value] items is built first, reading the names in
\* order, and a name the module does not have raises NameError.
additional_settings(globals) ==
    LET names == AdditionalSettingNames
        unbound == {k \in 1..Len(names) : names[k] \notin DOMAIN globals}
    IN  IF unbound # {}
        THEN Raised("NameError", "name '{}' is not defined",
                    <<names[CHOOSE k \in unbound : \A j \in unbound : k <= j]>>)
        ELSE LET items == [k \in 1..Len(names) |->
                              NameValuePairArgs(names[k], globals[names[k]])]
                 kept(item) == item_truthy(item.name, item.value)
             IN  Returned(SelectSeq(items, kept))

\* api.py: create_webapp(...); it declares nothing before it builds
\* additional_settings
CreateWebapp ==
    /\ pc = "create_webapp"
    /\ LET globals == [n \in WebappImports \cap DOMAIN consts |-> consts[n]]
           settings == additional_settings(globals)
       IN  /\ Proceed(settings, "set_up_function_apps")
           /\ declared' =
                  IF settings.ok
                  THEN Append(declared,
                              [name |-> "rctab-api-{IDENTIFIER}",
                               uses |-> {"IDENTIFIER", "AUTO_DEPLOY", "DOCKER_API_IMAGE"},
                               app_settings |-> settings.val])
                  ELSE declared
    /\ UNCHANGED <<callVars, config, consts, outputs, ran, xorCalls>>

\* The event loop runs the callback of PRIMARY_IP
ApplyCheckValidIpAddress ==
    /\ "PRIMARY_IP" \in DOMAIN outputs
    /\ ~outputs["PRIMARY_IP"].result.done
    /\ outputs' = [outputs EXCEPT !["PRIMARY_IP"].result =
                       check_valid_ip_address(outputs["PRIMARY_IP"].input)]
    /\ UNCHANGED <<callVars, config, pc, consts, ran, xorCalls, declared, error>>

\* The event loop runs the callback of BILLING_OR_MGMT
ApplyRaiseBillingOrMgmt ==
    /\ "BILLING_OR_MGMT" \in DOMAIN outputs
    /\ ~outputs["BILLING_OR_MGMT"].result.done
    /\ xorCalls' = Append(xorCalls, outputs["BILLING_OR_MGMT"].input)
    /\ outputs' = [outputs EXCEPT !["BILLING_OR_MGMT"].result =
                       raise_billing_or_mgmt(outputs["BILLING_OR_MGMT"].input)]
    /\ UNCHANGED <<callVars, config, pc, consts, ran, declared, error>>

NextRun ==
    \/ LoadIdentifier
    \/ LoadAutoDeploy
    \/ LoadPrimaryIp
    \/ LoadDbRootCertPath
    \/ LoadExpiryEmailFreq
    \/ LoadIgnoreWhitelist
    \/ LoadWhitelist
    \/ LoadLogLevel
    \/ LoadBillingOrMgmt
    \/ AssertIsFile
    \/ SetUpLogging
    \/ CreateActionGroup
    \/ CreatePrivateKeys
    \/ SetUpApi
    \/ CreateWebapp
    \/ ApplyCheckValidIpAddress
    \/ ApplyRaiseBillingOrMgmt

SpecRun == InitRun /\ [][NextRun]_vars

\* The same program on the configurations of the image names
SpecImages == InitImages /\ [][NextRun]_vars

(***************************************************************************)
(* Claims about validate_ticker_stack_combination                          *)
(***************************************************************************)
TickerCalled == fn = "validate_ticker_stack_combination" /\ ret.done

\* Length of "{ticker}-{stack}-abcdefgh": two hyphens and eight letters added
PaddedLen(ticker, stack) == Len(ticker) + Len(stack) + 10

HasForeignChar(s) == \E i \in 1..Len(s) : ~IdentifierChar(s[i])

\* The padded candidate is longer than 20 characters or has a character
\* outside [a-zA-Z0-9-]
BadCandidate(ticker, stack) ==
    \/ PaddedLen(ticker, stack) > 20
    \/ HasForeignChar(ticker)
    \/ HasForeignChar(stack)

\* v is exactly "{ticker}-{stack}"
IsTickerDashStack(v, ticker, stack) ==
    /\ Len(v) = Len(ticker) + 1 + Len(stack)
    /\ \A i \in 1..Len(ticker) : v[i] = ticker[i]
    /\ v[Len(ticker) + 1] = "-"
    /\ \A i \in 1..Len(stack) : v[Len(ticker) + 1 + i] = stack[i]

\* C1 as stated: for every ticker of length L and any stack the validator
\* succeeds iff 2 <= L <= 6, L = 1 failing with the "less than 2" message and
\* L = 7 with the distinct "more than 6" message.
C1_AsStated ==
    TickerCalled =>
        /\ ret.ok <=> (Len(args[1]) >= 2 /\ Len(args[1]) <= 6)
        /\ Len(args[1]) = 1 => ret.msg = "Ticker cannot be less than 2 characters"
        /\ Len(args[1]) = 7 => ret.msg = "Ticker cannot be more than 6 characters"

\* C1 amended: the validator succeeds only if 2 <= L <= 6; every L < 2 fails
\* with the "less than 2" message, every L > 6 with the distinct "more than
\* 6" message, and for 2 <= L <= 6 (L = 2 and L = 6 included) it succeeds
\* iff the padded candidate matches the pattern.
C1_TickerLength ==
    TickerCalled =>
        /\ ret.ok => (Len(args[1]) >= 2 /\ Len(args[1]) <= 6)
        /\ Len(args[1]) < 2 =>
               ~ret.ok /\ ret.msg = "Ticker cannot be less than 2 characters"
        /\ Len(args[1]) > 6 =>
               ~ret.ok /\ ret.msg = "Ticker cannot be more than 6 characters"
        /\ (Len(args[1]) >= 2 /\ Len(args[1]) <= 6) =>
               (ret.ok <=> ~BadCandidate(args[1], args[2]))

\* A ticker of the largest allowed length, 6, was accepted
C1_Witness == TickerCalled /\ Len(args[1]) = 6 /\ ret.ok

\* C2 as stated: a padded candidate longer than 20 characters or with a
\* character outside [a-zA-Z0-9-] fails; every other pair returns exactly
\* "{ticker}-{stack}".
C2_AsStated ==
    TickerCalled =>
        IF BadCandidate(args[1], args[2])
        THEN ~ret.ok
        ELSE ret.ok /\ IsTickerDashStack(ret.val, args[1], args[2])

\* C2 amended: a bad padded candidate fails; every other pair whose ticker
\* has 2 to 6 characters returns exactly "{ticker}-{stack}", and every other
\* pair whose ticker is shorter or longer fails on the ticker length.
C2_Pattern ==
    TickerCalled =>
        /\ BadCandidate(args[1], args[2]) => ~ret.ok
        /\ (~BadCandidate(args[1], args[2]) /\ Len(args[1]) >= 2 /\ Len(args[1]) <= 6) =>
               ret.ok /\ IsTickerDashStack(ret.val, args[1], args[2])
        /\ (~BadCandidate(args[1], args[2]) /\ ~(Len(args[1]) >= 2 /\ Len(args[1]) <= 6)) =>
               ~ret.ok /\ ret.msg \in {TickerTooShort, TickerTooLong}

\* A ticker of allowed length was rejected because the padded candidate is
\* longer than 20 characters, all its characters being allowed
C2_Witness ==
    /\ TickerCalled
    /\ Len(args[1]) = 2
    /\ PaddedLen(args[1], args[2]) = 21
    /\ ~HasForeignChar(args[1]) /\ ~HasForeignChar(args[2])
    /\ ~ret.ok /\ ret.msg = PatternMessage

(***************************************************************************)
(* Claims about raise_billing_or_mgmt                                      *)
(***************************************************************************)
ChoiceCalled == fn = "raise_billing_or_mgmt" /\ ret.done

\* C3: raise_billing_or_mgmt returns a value iff exactly one of billing and
\* mgmt is a non-empty string; both empty raises the "neither is" error, both
\* non-empty the distinct "both are" error, billing alone returns the pair
\* (BILLING_ACCOUNT_ID, billing) and mgmt alone the pair (MGMT_GROUP, mgmt).
C3_ExclusiveChoice ==
    ChoiceCalled =>
        LET b == Len(args.billing) > 0
            m == Len(args.mgmt) > 0
        IN  /\ ret.ok <=> ((b /\ ~m) \/ (m /\ ~b))
            /\ (~b /\ ~m) =>
                   /\ ret.exc = "ValueError"
                   /\ ret.msg = "One of billing_account_id or usage_mgmt_group should be set but neither is."
            /\ (b /\ m) =>
                   /\ ret.exc = "ValueError"
                   /\ ret.msg = "Only one of billing_account_id or usage_mgmt_group should be set but both are."
            /\ (b /\ ~m) =>
                   ret.val = [name |-> "BILLING_ACCOUNT_ID", value |-> args.billing]
            /\ (m /\ ~b) =>
                   ret.val = [name |-> "MGMT_GROUP", value |-> args.mgmt]

\* Both settings were non-empty and the call raised the "both are" error
C3_Witness ==
    /\ ChoiceCalled
    /\ Len(args.billing) > 0 /\ Len(args.mgmt) > 0
    /\ ~ret.ok /\ ret.msg = BothSetMessage

(***************************************************************************)
(* Claims about the list functions                                         *)
(***************************************************************************)
ListCalled(f) == fn = f /\ ret.done

Commas(x) == {i \in 1..Len(x) : x[i] = ","}

\* Position of the k-th comma of x; 0 for k = 0, Len(x) + 1 past the last
CommaAt(x, k) ==
    IF k = 0 THEN 0
    ELSE IF k > Cardinality(Commas(x)) THEN Len(x) + 1
    ELSE CHOOSE i \in Commas(x) : Cardinality({j \in Commas(x) : j <= i}) = k

\* The k-th comma-separated element of x, whitespace around it removed
Element(x, k) ==
    LET lo == CommaAt(x, k - 1) + 1
        hi == CommaAt(x, k) - 1
        inked == {i \in lo..hi : x[i] \notin Whitespace}
    IN  IF inked = {} THEN <<>>
        ELSE SubSeq(x, CHOOSE i \in inked : \A j \in inked : i <= j,
                       CHOOSE i \in inked : \A j \in inked : j <= i)

\* Start in the output of the k-th rendered element: "[" comes first, and
\* every earlier element takes its length, two quotes, a comma and a blank
RenderedAt(x, k) ==
    LET RECURSIVE Before(_)
        Before(j) == IF j = 0 THEN 0 ELSE Before(j - 1) + Len(Element(x, j)) + 4
    IN  2 + Before(k - 1)

\* out is "[" + the elements of x in order, each in double quotes, joined
\* by ", " + "]"
IsRenderedList(out, x) ==
    LET n == Cardinality(Commas(x)) + 1
    IN  /\ Len(out) = RenderedAt(x, n + 1) - 2
        /\ out[1] = "["
        /\ out[Len(out)] = "]"
        /\ \A k \in 1..n :
               LET at == RenderedAt(x, k)
                   e == Element(x, k)
               IN  /\ out[at] = "\""
                   /\ SubSeq(out, at + 1, at + Len(e)) = e
                   /\ out[at + Len(e) + 1] = "\""
                   /\ k < n => (out[at + Len(e) + 2] = "," /\ out[at + Len(e) + 3] = " ")

\* C7: for every non-empty input with n commas format_list_str returns "["
\* followed by the n + 1 elements in their order, each stripped of
\* surrounding whitespace and wrapped in double quotes, joined by ", ",
\* followed by "]"; 'abc, def, ghi' yields '["abc", "def", "ghi"]'.
C7_FormatListStr ==
    (ListCalled("format_list_str") /\ Truthy(args)) =>
        /\ ret.ok
        /\ IsRenderedList(ret.val, args)
        /\ args = AbcDefGhi =>
               ret.val = <<"[", "\"", "a", "b", "c", "\"", ",", " ",
                           "\"", "d", "e", "f", "\"", ",", " ",
                           "\"", "g", "h", "i", "\"", "]">>

\* 'abc, def, ghi' was formatted
C7_Witness ==
    ListCalled("format_list_str") /\ args = AbcDefGhi /\ ret.ok /\ Len(ret.val) = 21

\* C8: format_list_str, format_list_int, assert_valid_uuid_list and
\* assert_valid_int_list each return None for None and the empty string for
\* the empty string, without error.
C8_AbsentAndEmpty ==
    \A f \in ListFns :
        ListCalled(f) =>
            /\ args = None => (ret.ok /\ ret.val = None)
            /\ args = <<>> => (ret.ok /\ ret.val = <<>>)

\* format_list_int was given the empty string and returned it
C8_Witness == ListCalled("format_list_int") /\ args = <<>> /\ ret.ok /\ ret.val = <<>>

\* The elements of x that is_valid_uuid rejects, by position
InvalidUuidAt(x) ==
    {k \in 1..(Cardinality(Commas(x)) + 1) : ~is_valid_uuid(Element(x, k))}

\* C9: for every non-empty input assert_valid_uuid_list returns the input
\* unchanged when is_valid_uuid accepts every trimmed element, and otherwise
\* fails with "<element> is not a valid UUID" naming the first rejected
\* trimmed element from the left.
C9_FirstInvalidUuid ==
    (ListCalled("assert_valid_uuid_list") /\ Truthy(args)) =>
        IF InvalidUuidAt(args) = {}
        THEN ret.ok /\ ret.val = args
        ELSE /\ ~ret.ok
             /\ ret.msg = "{} is not a valid UUID"
             /\ ret.arg = Element(args, CHOOSE k \in InvalidUuidAt(args) :
                                              \A j \in InvalidUuidAt(args) : k <= j)

\* A list with two different rejected elements failed naming the first
C9_Witness ==
    /\ ListCalled("assert_valid_uuid_list")
    /\ Truthy(args)
    /\ \E j, k \in InvalidUuidAt(args) :
           /\ j < k
           /\ \A i \in InvalidUuidAt(args) : j <= i
           /\ Element(args, j) # Element(args, k)
           /\ ~ret.ok
           /\ ret.arg = Element(args, j)

\* The elements of x that are empty or hold a character that is not a
\* decimal digit, by position
InvalidIntAt(x) ==
    {k \in 1..(Cardinality(Commas(x)) + 1) :
        \/ Element(x, k) = <<>>
        \/ \E i \in 1..Len(Element(x, k)) : Element(x, k)[i] \notin Digit}

\* C11: for every non-empty input assert_valid_int_list returns the input
\* unchanged when every trimmed element is non-empty and made only of
\* decimal digits, and otherwise fails with "<element> is not a valid
\* integer." naming the first offending trimmed element; '1, 7, 14, 21' is
\* returned as is and '12.4' fails naming '12.4'.
C11_IntList ==
    (ListCalled("assert_valid_int_list") /\ Truthy(args)) =>
        /\ IF InvalidIntAt(args) = {}
           THEN ret.ok /\ ret.val = args
           ELSE /\ ~ret.ok
                /\ ret.msg = "{} is not a valid integer."
                /\ ret.arg = Element(args, CHOOSE k \in InvalidIntAt(args) :
                                                 \A j \in InvalidIntAt(args) : k <= j)
        /\ args = OneSevenFourteenTwentyOne => (ret.ok /\ ret.val = args)
        /\ args = <<"1", "2", ".", "4">> =>
               (~ret.ok /\ ret.arg = <<"1", "2", ".", "4">>)

\* '12.4' failed naming '12.4'
C11_Witness ==
    /\ ListCalled("assert_valid_int_list")
    /\ args = <<"1", "2", ".", "4">>
    /\ ~ret.ok
    /\ ret.msg = "{} is not a valid integer."
    /\ ret.arg = <<"1", "2", ".", "4">>

\* C12: the value produced from a valid non-empty integer list, by
\* format_list_int and for EXPIRY_EMAIL_FREQ, is a JSON array in which
\* every element is wrapped in double quotes, never a bare number.
C12_IntsQuoted ==
    /\ (ListCalled("format_list_int") /\ Truthy(args) /\ InvalidIntAt(args) = {}) =>
           (ret.ok /\ IsRenderedList(ret.val, args))
    /\ ("EXPIRY_EMAIL_FREQ" \in DOMAIN consts /\ Truthy(config.expiry_email_freq)) =>
           IsRenderedList(consts["EXPIRY_EMAIL_FREQ"], config.expiry_email_freq)

\* C13: for every non-empty input s format_list_int returns "[" + s + "]",
\* the content of s unchanged; '1, 2' yields '[1, 2]'.
C13_FormatListInt ==
    (ListCalled("format_list_int") /\ Truthy(args)) =>
        /\ ret.ok
        /\ Len(ret.val) = Len(args) + 2
        /\ ret.val[1] = "["
        /\ ret.val[Len(ret.val)] = "]"
        /\ SubSeq(ret.val, 2, Len(ret.val) - 1) = args
        /\ args = OneTwo => ret.val = <<"[", "1", ",", " ", "2", "]">>

\* An input with padding and an element that is no integer kept both
C13_Witness ==
    /\ ListCalled("format_list_int")
    /\ args = <<" ", "7", ",", "1", "2", ".", "4">>
    /\ ret.ok
    /\ ret.val = <<"[", " ", "7", ",", "1", "2", ".", "4", "]">>

(***************************************************************************)
(* Claims about is_valid_uuid                                              *)
(***************************************************************************)
\* Hex digits and hyphens in the 8-4-4-4-12 grouping
IsCanonicalUuid(x) ==
    /\ Len(x) = 36
    /\ \A i \in 1..36 :
           IF i \in {9, 14, 19, 24} THEN x[i] = "-" ELSE x[i] \in HexDigit

\* C10: is_valid_uuid accepts a string only if it consists of hex digits and
\* hyphens in the canonical 8-4-4-4-12 grouping; every other string is
\* rejected.
C10_OnlyCanonical ==
    (fn = "is_valid_uuid" /\ ret.done) => (ret.val => IsCanonicalUuid(args))

(***************************************************************************)
(* Claims about the deployment program                                     *)
(***************************************************************************)
\* Every validator accepts the value the configuration gives its key
ConfigPasses ==
    /\ config.ticker # None
    /\ validate_ticker_stack_combination(config.ticker, STACK_NAME).ok
    /\ assert_str_true_or_false(config.auto_deploy).ok
    /\ assert_valid_int_list(config.expiry_email_freq).ok
    /\ assert_str_true_or_false(config.ignore_whitelist).ok
    /\ assert_valid_uuid_list(config.whitelist).ok
    /\ assert_valid_log_level(config.log_level).ok
    /\ config.primary_ip_address # None
    /\ check_valid_ip_address(config.primary_ip_address).ok
    /\ raise_billing_or_mgmt([billing |-> str_or(config.billing_account_id, <<>>),
                              mgmt |-> str_or(config.usage_mgmt_group, <<>>)]).ok
    /\ config.db_root_cert_path # None
    /\ assert_is_file(config.db_root_cert_path).ok

\* The callback attached to the Output has run and returned
CallbackSucceeded(name) ==
    /\ name \in DOMAIN outputs
    /\ outputs[name].result.done
    /\ outputs[name].result.ok

\* Loading was ended by a validator
ValidatorFailed == pc = "failed" /\ error.exc = "AssertionError"

\* Every validation of the run has completed successfully
AllValidated ==
    /\ \E i \in 1..Len(ran) : ran[i] = "db_root_cert_path"
    /\ ~ValidatorFailed
    /\ CallbackSucceeded("PRIMARY_IP")
    /\ CallbackSucceeded("BILLING_OR_MGMT")

\* C4: every configuration validation, the IP and exclusive-choice checks
\* attached through Output.apply included, has completed successfully
\* before a validated value is handed to a resource declaration, and no
\* resource is declared in a run whose configuration fails a validation.
C4_ValidatedBeforeDeclared ==
    /\ \A i \in 1..Len(declared) : declared[i].uses # {} => AllValidated
    /\ declared # <<>> => ConfigPasses

\* What an unset key of the exclusive choice resolves to
C5_Resolved(value) == IF value = None THEN <<>> ELSE value

\* C5: raise_billing_or_mgmt is called at most once per run, and only with
\* the pair of both resolved values of billing_account_id and
\* usage_mgmt_group, an unset key resolved to the empty string.
C5_OncePerRunOnBoth ==
    /\ Len(xorCalls) <= 1
    /\ \A i \in 1..Len(xorCalls) :
           /\ DOMAIN xorCalls[i] = {"billing", "mgmt"}
           /\ xorCalls[i].billing = C5_Resolved(config.billing_account_id)
           /\ xorCalls[i].mgmt = C5_Resolved(config.usage_mgmt_group)

C5_Witness ==
    /\ Len(xorCalls) = 1
    /\ config.usage_mgmt_group = None
    /\ config.billing_account_id = AccountId
    /\ xorCalls[1] = [billing |-> AccountId, mgmt |-> <<>>]
    /\ outputs["BILLING_OR_MGMT"].result.ok

\* The order in which the keys are validated
C6_Order ==
    <<"ticker", "auto_deploy", "expiry_email_freq", "ignore_whitelist",
      "whitelist", "log_level", "db_root_cert_path">>

\* What the validator of a key makes of the configured value
C6_Check(key) ==
    CASE key = "ticker" -> validate_ticker_stack_combination(config.ticker, STACK_NAME)
      [] key = "auto_deploy" -> assert_str_true_or_false(config.auto_deploy)
      [] key = "expiry_email_freq" -> assert_valid_int_list(config.expiry_email_freq)
      [] key = "ignore_whitelist" -> assert_str_true_or_false(config.ignore_whitelist)
      [] key = "whitelist" -> assert_valid_uuid_list(config.whitelist)
      [] key = "log_level" -> assert_valid_log_level(config.log_level)
      [] key = "db_root_cert_path" -> assert_is_file(config.db_root_cert_path)

\* The keys after position n that their validators reject
C6_InvalidAfter(n) ==
    {j \in (n + 1)..Len(C6_Order) : ~C6_Check(C6_Order[j]).ok}

\* C6: loading stops at the first failing validator in the order
\* ticker/stack, auto_deploy, expiry_email_freq, ignore_whitelist,
\* whitelist, log_level, db_root_cert_path: the validators run in this
\* order, the error raised is that of the earliest invalid key, and no
\* validator of a later key is run.
C6_StopsAtFirstFailing ==
    /\ ran = SubSeq(C6_Order, 1, Len(ran))
    /\ \A j \in 1..(Len(ran) - 1) : C6_Check(ran[j]).ok
    /\ ValidatorFailed =>
           /\ Len(ran) >= 1
           /\ ~C6_Check(ran[Len(ran)]).ok
           /\ error = C6_Check(ran[Len(ran)])
    /\ ~ValidatorFailed => \A j \in 1..Len(ran) : C6_Check(ran[j]).ok

C6_Witness ==
    /\ ValidatorFailed
    /\ ran = <<"ticker", "auto_deploy", "expiry_email_freq">>
    /\ error.msg = "{} is not a valid integer."
    /\ Cardinality(C6_InvalidAfter(3)) >= 2

\* Loading has carried out the statement that defines AUTO_DEPLOY
PastAutoDeploy == Len(ran) >= 2 /\ ~(ValidatorFailed /\ Len(ran) = 2)

\* C15: whenever loading gets past the auto_deploy key, AUTO_DEPLOY is
\* 'true' or 'false': the configured value when that is 'true' or 'false',
\* and 'true' when auto_deploy is absent.
C15_AutoDeploy ==
    /\ PastAutoDeploy => "AUTO_DEPLOY" \in DOMAIN consts
    /\ "AUTO_DEPLOY" \in DOMAIN consts =>
           /\ consts["AUTO_DEPLOY"] \in {TrueStr, FalseStr}
           /\ config.auto_deploy \in {TrueStr, FalseStr} =>
                  consts["AUTO_DEPLOY"] = config.auto_deploy
           /\ config.auto_deploy = None => consts["AUTO_DEPLOY"] = TrueStr

\* A run without auto_deploy reached create_webapp with the default
C15_Witness ==
    /\ pc = "create_webapp"
    /\ config.auto_deploy = None
    /\ "AUTO_DEPLOY" \in DOMAIN consts
    /\ consts["AUTO_DEPLOY"] = TrueStr

(***************************************************************************)
(* Claims about the validators of a single value                           *)
(***************************************************************************)
ScalarCalled(f) == fn = f /\ ret.done

\* C14: assert_str_true_or_false returns None unchanged, returns 'true' and
\* 'false' unchanged, and fails for every other present value, 'True',
\* 'TRUE' and 'False' included.
C14_TrueOrFalse ==
    ScalarCalled("assert_str_true_or_false") =>
        /\ args = None => (ret.ok /\ ret.val = None)
        /\ args \in {TrueStr, FalseStr} => (ret.ok /\ ret.val = args)
        /\ (args # None /\ args \notin {TrueStr, FalseStr}) => ~ret.ok

EightLevels ==
    { <<"C", "R", "I", "T", "I", "C", "A", "L">>, <<"F", "A", "T", "A", "L">>,
      <<"E", "R", "R", "O", "R">>, <<"W", "A", "R", "N", "I", "N", "G">>,
      <<"W", "A", "R", "N">>, <<"I", "N", "F", "O">>, <<"D", "E", "B", "U", "G">>,
      <<"N", "O", "T", "S", "E", "T">> }

\* C16: assert_valid_log_level returns None for None; a present input is
\* uppercased and the uppercased value returned iff it is one of the eight
\* levels, and otherwise the call fails with a message that holds the
\* uppercased value and the tuple of the eight levels.
C16_LogLevel ==
    ScalarCalled("assert_valid_log_level") =>
        /\ args = None => (ret.ok /\ ret.val = None)
        /\ args # None =>
               IF upper(args) \in EightLevels
               THEN ret.ok /\ ret.val = upper(args)
               ELSE /\ ~ret.ok
                    /\ ret.arg = upper(args)
                    /\ ret.msg = "{} not in ('CRITICAL', 'FATAL', 'ERROR', 'WARNING', 'WARN', 'INFO', 'DEBUG', 'NOTSET')"

\* C17: for each of assert_str_true_or_false, assert_valid_log_level,
\* assert_valid_uuid_list, assert_valid_int_list, check_valid_ip_address
\* and format_list_str, calling the function again on a value it returned
\* succeeds and returns that value.
C17_Idempotent == [][CallAgain => (ret'.ok /\ ret'.val = ret.val)]_vars

\* Positions of the character c in x
Where(x, c) == {i \in 1..Len(x) : x[i] = c}

\* The k-th of the fields of x that the character c separates
Field(x, c, k) ==
    LET seps == Where(x, c)
        at(n) == IF n = 0 THEN 0
                 ELSE IF n > Cardinality(seps) THEN Len(x) + 1
                 ELSE CHOOSE i \in seps : Cardinality({j \in seps : j <= i}) = n
    IN  SubSeq(x, at(k - 1) + 1, at(k) - 1)

\* A decimal number from 0 to 255 without leading zeros
IsOctet(f) ==
    /\ Len(f) \in 1..3
    /\ \A i \in 1..Len(f) : f[i] \in Digit
    /\ Len(f) > 1 => f[1] # "0"
    /\ Len(f) = 3 =>
           \/ f[1] = "1"
           \/ f[1] = "2" /\ f[2] \in {"0", "1", "2", "3", "4"}
           \/ f[1] = "2" /\ f[2] = "5" /\ f[3] \in {"0", "1", "2", "3", "4", "5"}

\* Dotted-decimal notation: four octets
IsDottedQuad(x) ==
    /\ Cardinality(Where(x, ".")) = 3
    /\ \A k \in 1..4 : IsOctet(Field(x, ".", k))

IsHexGroup(f) == Len(f) \in 1..4 /\ \A i \in 1..Len(f) : f[i] \in HexDigit

\* The number of 16-bit groups x writes as hex groups joined by colons, the
\* last 32 bits as a dotted quad if quad allows; -1 if x is not such a list
Groups16(x, quad) ==
    IF x = <<>> THEN 0
    ELSE LET n == Cardinality(Where(x, ":")) + 1
         IN  IF \A k \in 1..n : IsHexGroup(Field(x, ":", k)) THEN n
             ELSE IF /\ quad
                     /\ \A k \in 1..(n - 1) : IsHexGroup(Field(x, ":", k))
                     /\ IsDottedQuad(Field(x, ":", n))
                  THEN n + 1
                  ELSE -1

\* Colon-hex notation: eight groups, or fewer with one "::" for the rest
IsColonHex(x) ==
    \/ Groups16(x, TRUE) = 8
    \/ \E i \in 1..(Len(x) - 1) :
           /\ x[i] = ":"
           /\ x[i + 1] = ":"
           /\ LET before == Groups16(SubSeq(x, 1, i - 1), FALSE)
                  after == Groups16(SubSeq(x, i + 2, Len(x)), TRUE)
              IN  before >= 0 /\ after >= 0 /\ before + after <= 7

\* An IPv6 address, with a zone after "%" or without
IsIPv6Text(x) ==
    /\ Where(x, "/") = {}
    /\ \/ Where(x, "%") = {} /\ IsColonHex(x)
       \/ \E i \in Where(x, "%") :
              /\ Where(x, "%") = {i}
              /\ i < Len(x)
              /\ IsColonHex(SubSeq(x, 1, i - 1))

\* C18: check_valid_ip_address returns its input unchanged iff the input
\* is a syntactically valid IPv4 or IPv6 address and fails with ValueError
\* otherwise; '092.168.123.132', an octet with a leading zero, fails.
C18_IpAddress ==
    ScalarCalled("check_valid_ip_address") =>
        /\ IF IsDottedQuad(args) \/ IsIPv6Text(args)
           THEN ret.ok /\ ret.val = args
           ELSE ~ret.ok /\ ret.exc = "ValueError"
        /\ args = ValidIp => (ret.ok /\ ret.val = ValidIp)
        /\ args = LeadingZeroIp => ~ret.ok

\* '092.168.123.132' failed
C18_Witness ==
    /\ ScalarCalled("check_valid_ip_address")
    /\ args = LeadingZeroIp
    /\ ~ret.ok
    /\ ret.exc = "ValueError"

\* C19: assert_is_file returns the path unchanged iff it is the path of an
\* existing regular file, and fails, changing nothing, for the path of a
\* directory or of nothing.
C19_IsFile ==
    ScalarCalled("assert_is_file") =>
        /\ IF args = CertFile
           THEN ret.ok /\ ret.val = args
           ELSE ~ret.ok /\ ret.exc = "AssertionError"
        /\ RunIdle

\* The path of a directory failed
C19_Witness ==
    /\ ScalarCalled("assert_is_file")
    /\ args = CertDir
    /\ ~ret.ok

\* The messages that hold the value they complain about
ValueTemplates ==
    { PatternMessage,
      "{} is an invalid value. Allowed values are 'true' or 'false'.",
      "{} is not a valid UUID",
      "{} is not a valid integer.",
      "{} not in ('CRITICAL', 'FATAL', 'ERROR', 'WARNING', 'WARN', 'INFO', 'DEBUG', 'NOTSET')",
      "{} does not appear to be an IPv4 or IPv6 address" }

\* C20: every validation failure carries a message that embeds the
\* offending input value.
C20_MessagesEmbedInput ==
    (fn # "src.utils.validate_ticker_stack_combination" /\ ret.done /\ ~ret.ok) =>
        ret.msg \in ValueTemplates

(***************************************************************************)
(* Further claims about validate_ticker_stack_combination and its copy     *)
(***************************************************************************)
SrcTickerCalled == fn = "src.utils.validate_ticker_stack_combination" /\ ret.done

\* C21: whenever validate_ticker_stack_combination succeeds, the ticker and
\* the stack name together have at most 10 characters; the stack name is
\* otherwise free in length: every pair of allowed characters with a ticker
\* of 2 to 6 characters and at most 10 characters together succeeds.
C21_CombinedLength ==
    TickerCalled =>
        /\ ret.ok => Len(args[1]) + Len(args[2]) <= 10
        /\ ( /\ Len(args[1]) >= 2
             /\ Len(args[1]) <= 6
             /\ ~HasForeignChar(args[1])
             /\ ~HasForeignChar(args[2])
             /\ Len(args[1]) + Len(args[2]) <= 10 ) => ret.ok

\* A pair of exactly 10 characters together was accepted
C21_Witness ==
    /\ TickerCalled
    /\ ret.ok
    /\ Len(args[1]) = 2
    /\ Len(args[2]) = 8

C24_LengthErrorFirst ==
    (TickerCalled /\ BadCandidate(args[1], args[2])) =>
        /\ Len(args[1]) < 2 => (~ret.ok /\ ret.msg = TickerTooShort)
        /\ Len(args[1]) > 6 => (~ret.ok /\ ret.msg = TickerTooLong)

\* A ticker of one character, with a stack that makes the padded candidate
\* one character too long, was reported as too short
C24_Witness ==
    /\ TickerCalled
    /\ Len(args[1]) = 1
    /\ PaddedLen(args[1], args[2]) = 21
    /\ ~HasForeignChar(args[1])
    /\ ~HasForeignChar(args[2])
    /\ ret.msg = TickerTooShort

\* C29: for every identifier either copy of the validator returns, the
\* storage account's name consists of lower-case ASCII letters only and
\* has between 5 and 15 characters.
C29_StorageAccountName ==
    declared # <<>> =>
        LET name == declared[1].name
        IN  /\ \A i \in 1..Len(name) : name[i] \in Lower
            /\ Len(name) >= 5
            /\ Len(name) <= 15

\* A name of 15 characters was built from an identifier that has a hyphen
\* and an upper-case letter
C29_Witness ==
    /\ declared # <<>>
    /\ Len(declared[1].name) = 15
    /\ \E i \in 1..Len(ret.val) : ret.val[i] \in Upper

(***************************************************************************)
(* Claims about the secret list of administrators' addresses               *)
(***************************************************************************)
SecretCalled(f) == fn = f /\ ret.done

\* C25: format_secret_list_str applies the normalization of
\* format_list_str: for every string x the string carried by
\* format_secret_list_str(Output(x)) equals format_list_str(x), and None
\* returns None.
C25_SameAsFormatListStr ==
    SecretCalled("format_secret_list_str") =>
        /\ ret.ok
        /\ ret.val = format_list_str(args).val

\* No element of x has one of the characters [ ] "
PlainAddresses(x) == \A i \in 1..Len(x) : x[i] \notin {"[", "]", "\""}

\* The part of e before its first "@", all of e if it has none
BeforeAt(e) ==
    IF \E i \in 1..Len(e) : e[i] = "@"
    THEN SubSeq(e, 1, (CHOOSE i \in 1..Len(e) :
                           e[i] = "@" /\ \A j \in 1..(i - 1) : e[j] # "@") - 1)
    ELSE e

\* C27 as stated: for every list x of addresses without [ ] " and comma the
\* receivers are, in order, the whitespace-trimmed elements of x, one
\* receiver per element, email_address the trimmed element and name its
\* part before the first "@"; email_receivers is None iff
\* admin_email_recipients is not configured.
C27_AsStated ==
    SecretCalled("create_action_group") =>
        /\ ret.val.present <=> args # None
        /\ (args # None /\ PlainAddresses(args)) =>
               /\ Len(ret.val.items) = Cardinality(Commas(args)) + 1
               /\ \A k \in 1..Len(ret.val.items) :
                      /\ ret.val.items[k].email_address = Element(args, k)
                      /\ ret.val.items[k].name = BeforeAt(Element(args, k))

\* C27 amended: as stated, except that name is the part of the trimmed
\* element before its first "@" with the whitespace around that part
\* removed too.
C27_RoundTrip ==
    SecretCalled("create_action_group") =>
        /\ ret.val.present <=> args # None
        /\ (args # None /\ PlainAddresses(args)) =>
               /\ Len(ret.val.items) = Cardinality(Commas(args)) + 1
               /\ \A k \in 1..Len(ret.val.items) :
                      /\ ret.val.items[k].email_address = Element(args, k)
                      /\ ret.val.items[k].name = strip(BeforeAt(Element(args, k)))

\* Two addresses, the second with whitespace around it, became two
\* receivers named after the part before "@"
C27_Witness ==
    /\ SecretCalled("create_action_group")
    /\ args = <<"a", "@", "b", ",", " ", "c", "@", "d", " ">>
    /\ ret.val.present
    /\ Len(ret.val.items) = 2
    /\ ret.val.items[2].email_address = <<"c", "@", "d">>
    /\ ret.val.items[2].name = <<"c">>

(***************************************************************************)
(* Claims about the function apps                                          *)
(***************************************************************************)
\* C28: for every configured rctab_tag, the image names left at their
\* defaults, the letters create_function_app derives are u, s and c, so the
\* three function apps, their app-insights components and their alert
\* rules get pairwise distinct names.
C28_DistinctLetters ==
    (fn = "set_up_function_apps" /\ ret.done) =>
        /\ ret.ok
        /\ Len(ret.val) = 9
        /\ \A i \in 1..3 : ret.val[i].letter = <<"u">>
        /\ \A i \in 4..6 : ret.val[i].letter = <<"s">>
        /\ \A i \in 7..9 : ret.val[i].letter = <<"c">>
        /\ \A i, j \in 1..9 : i # j => ret.val[i] # ret.val[j]

(***************************************************************************)
(* Claims about the image names and the web app's optional settings        *)
(***************************************************************************)
\* The four image constants: name, configuration key and application
ImageConstants ==
    { <<"DOCKER_API_IMAGE", "docker_api_image", Api>>,
      <<"DOCKER_USAGE_IMAGE", "docker_usage_image", Usage>>,
      <<"DOCKER_STATUS_IMAGE", "docker_status_image", Status>>,
      <<"DOCKER_CONTROLLER_IMAGE", "docker_controller_image", Controller>> }

\* 'turingrc/rctab-<app>:1.latest'
LatestImage(app) == ImagePrefix \o app \o <<":", "1", ".", "l", "a", "t", "e", "s", "t">>

CreateWebappEnded ==
    \/ pc = "set_up_function_apps"
    \/ pc = "failed" /\ error.exc = "NameError"

\* The pairs named K in a list of app settings
PairsNamed(settings, K) == {j \in 1..Len(settings) : settings[j].name = K}

\* C26: once create_webapp has run, the web app is declared and for each
\* optional setting K its app settings hold exactly one pair named K, with
\* the validated value, when that value is present and non-empty, and no
\* pair named K when the value is None or the empty string.
C26_OptionalSettings ==
    CreateWebappEnded =>
        \E i \in 1..Len(declared) :
            /\ "app_settings" \in DOMAIN declared[i]
            /\ \A k \in 1..Len(AdditionalSettingNames) :
                   LET K == AdditionalSettingNames[k]
                       pairs == PairsNamed(declared[i].app_settings, K)
                   IN  IF Truthy(consts[K])
                       THEN /\ Cardinality(pairs) = 1
                            /\ \A j \in pairs : declared[i].app_settings[j].value = consts[K]
                       ELSE pairs = {}

====
